---- MODULE Spec2Model ----
(***************************************************************************)
(* Model of the cyber-js client: CyberClient (src/src/cyberclient.ts) and  *)
(* SigningCyberClient (src/src/signingcyberclient.ts).                     *)
(*                                                                         *)
(* Every public method is an async function.  A call runs atomically from  *)
(* one await of an external collaborator (signer, query layer, node) to    *)
(* the next; calls of different callers interleave at those awaits.        *)
(***************************************************************************)
EXTENDS Integers, Sequences, FiniteSets, TLC

\* ------------------------------------------------------------------ bounds
\* cap on the on-chain sequence of an account (the chain itself is unbounded)
MaxSequence == 2

\* ------------------------------------------------------- values and inputs
\* the concurrent callers of one client object
Callers == {"c1", "c2"}

\* JavaScript undefined, for string-valued fields
undefined == "%undefined%"

\* JavaScript truthiness of a string | undefined
Truthy(s) == s # undefined /\ s # ""

\* a1: known to the signer, exists on chain
\* a2: known to the signer, has no on-chain account
\* a3: unknown to the signer, on-chain account of a type accountFromAny rejects
Addresses == {"a1", "a2", "a3"}

\* what signer.getAccounts() returns
SignerAccounts ==
  << [address |-> "a1", algo |-> "secp256k1", pubkey |-> "rawkey-a1"],
     [address |-> "a2", algo |-> "secp256k1", pubkey |-> "rawkey-a2"] >>

\* the chain id of the network the node belongs to
NodeNetwork == "test-1"

\* what the node may report as nodeInfo.network in a status response
Networks == {NodeNetwork, ""}

Digits == {"0", "1", "2", "3", "4", "5", "6", "7", "8", "9"}

DigitValue(d) ==
  CASE d = "0" -> 0 [] d = "1" -> 1 [] d = "2" -> 2 [] d = "3" -> 3
    [] d = "4" -> 4 [] d = "5" -> 5 [] d = "6" -> 6 [] d = "7" -> 7
    [] d = "8" -> 8 [] d = "9" -> 9

DigitChar(n) ==
  CASE n = 0 -> "0" [] n = 1 -> "1" [] n = 2 -> "2" [] n = 3 -> "3"
    [] n = 4 -> "4" [] n = 5 -> "5" [] n = 6 -> "6" [] n = 7 -> "7"
    [] n = 8 -> "8" [] n = 9 -> "9"

\* Strings that the code parses are sequences of characters.
\* Number.prototype.toString for a non-negative integer
RECURSIVE NumberToString(_)
NumberToString(n) ==
  IF n < 10 THEN << DigitChar(n) >>
  ELSE Append(NumberToString(n \div 10), DigitChar(n % 10))

\* Number.parseInt(str, 10) of a string of digits
RECURSIVE ParseDigits(_)
ParseDigits(s) ==
  IF Len(s) = 0 THEN 0
  ELSE 10 * ParseDigits(SubSeq(s, 1, Len(s) - 1)) + DigitValue(s[Len(s)])

AllDigits(s) == Len(s) > 0 /\ \A i \in 1..Len(s) : s[i] \in Digits

\* Int53.fromString replaced by a bare Number.parseInt, which stops at the
\* first character that is no digit and does not throw
Int53FromString_parseInt(str) ==
  IF Len(str) > 0 /\ str[1] = "-" /\ AllDigits(Tail(str))
    THEN [ok |-> TRUE, value |-> 0 - ParseDigits(Tail(str))]
  ELSE [ok |-> TRUE,
        value |-> ParseDigits(SelectSeq(str, LAMBDA ch : ch \in Digits))]

\* Int53.fromString: /^-?[0-9]+$/ then parseInt; a value or a thrown error
Int53FromString(str) ==
  IF Len(str) > 0 /\ str[1] = "-" /\ AllDigits(Tail(str))
    THEN [ok |-> TRUE, value |-> 0 - ParseDigits(Tail(str))]
  ELSE IF AllDigits(str)
    THEN [ok |-> TRUE, value |-> ParseDigits(str)]
  ELSE [ok |-> FALSE, value |-> 0]

\* Uint53.fromString(n.toString()).toString() as makeSignDocAmino renders
\* account number and sequence
Uint53String(n) == NumberToString(n)

\* Long.fromNumber(n) written as a uint64 varint: a negative number wraps
LongFromNumber(n) ==
  IF n >= 0 THEN [wire |-> "uint64", value |-> n]
  ELSE [wire |-> "uint64-wrapped", value |-> 0 - n]

\* --------------------------------------------------------------- messages
MsgSendUrl == "/cosmos.bank.v1beta1.MsgSend"
MsgCyberlinkUrl == "/cyber.graph.v1beta1.MsgCyberlink"
UnknownUrl == "/unknown.v1.MsgUnknown"

Coins == << [denom |-> "token", amount |-> "100"] >>

MsgSendA1 ==
  [typeUrl |-> MsgSendUrl,
   value |-> [kind |-> "send", fromAddress |-> "a1", toAddress |-> "a3",
              amount |-> Coins]]

MsgCyberlinkA1 ==
  [typeUrl |-> MsgCyberlinkUrl,
   value |-> [kind |-> "cyberlink", address |-> "a1", from |-> "Qm1", to |-> "Qm2"]]

MsgUnknown ==
  [typeUrl |-> UnknownUrl, value |-> [kind |-> "unknown"]]

FeeAmount == << [denom |-> "nick", amount |-> << "1" >>] >>

\* the calls of signAndBroadcast a caller makes: one that every step accepts,
\* and variations of it in the address, the messages, the gas string and the memo
SignRequests ==
  { [signerAddress |-> "a1", messages |-> << MsgSendA1 >>,
     fee |-> [amount |-> FeeAmount, gas |-> << "1", "2" >>], memo |-> "hello"],
    [signerAddress |-> "a1", messages |-> << MsgSendA1 >>,
     fee |-> [amount |-> FeeAmount, gas |-> << "-", "1" >>], memo |-> ""],
    [signerAddress |-> "a1", messages |-> << MsgSendA1 >>,
     fee |-> [amount |-> FeeAmount, gas |-> << "1", "x" >>], memo |-> ""],
    [signerAddress |-> "a1", messages |-> << MsgCyberlinkA1 >>,
     fee |-> [amount |-> FeeAmount, gas |-> << "1", "2" >>], memo |-> ""],
    [signerAddress |-> "a1", messages |-> << MsgUnknown >>,
     fee |-> [amount |-> FeeAmount, gas |-> << "1", "2" >>], memo |-> ""],
    [signerAddress |-> "a2", messages |-> << MsgSendA1 >>,
     fee |-> [amount |-> FeeAmount, gas |-> << "1", "2" >>], memo |-> ""],
    [signerAddress |-> "a3", messages |-> << MsgSendA1 >>,
     fee |-> [amount |-> FeeAmount, gas |-> << "1", "2" >>], memo |-> ""] }

MsgConvertUrl == "/cyber.resources.v1beta1.MsgConvert"
MsgCreateEnergyRouteUrl == "/cyber.energy.v1beta1.MsgCreateEnergyRoute"
MsgEditEnergyRouteUrl == "/cyber.energy.v1beta1.MsgEditEnergyRoute"
MsgDeleteEnergyRouteUrl == "/cyber.energy.v1beta1.MsgDeleteEnergyRoute"
MsgEditEnergyRouteAliasUrl == "/cyber.energy.v1beta1.MsgEditEnergyRouteAlias"

\* the type urls createDefaultRegistry registers (defaultRegistryTypes holds MsgSend)
RegisteredTypeUrls ==
  {MsgSendUrl, MsgCyberlinkUrl, MsgConvertUrl, MsgCreateEnergyRouteUrl,
   MsgEditEnergyRouteUrl, MsgDeleteEnergyRouteUrl, MsgEditEnergyRouteAliasUrl}

\* registry.encode of one message: the Any that carries its encoded value
EncodeAsAny(msg) ==
  [typeUrl |-> msg.typeUrl, bytes |-> << "proto", msg.value >>]

\* registry.encode({typeUrl: "/cosmos.tx.v1beta1.TxBody", value: txBody}):
\* throws on a message whose type url is not registered
EncodeTxBody(txBody) ==
  IF \A i \in 1..Len(txBody.messages) : txBody.messages[i].typeUrl \in RegisteredTypeUrls
    THEN [ok |-> TRUE,
          bytes |-> [proto |-> "TxBody",
                     messages |-> [i \in 1..Len(txBody.messages) |->
                                     EncodeAsAny(txBody.messages[i])],
                     memo |-> txBody.memo]]
  ELSE [ok |-> FALSE, bytes |-> [proto |-> "none"]]

\* the Amino types of new AminoTypes({additions: {}}): the standard ones only
AminoTypeOf(typeUrl) ==
  IF typeUrl = MsgSendUrl THEN "cosmos-sdk/MsgSend" ELSE undefined

\* aminoTypes.toAmino(msg)
toAmino(msg) ==
  IF AminoTypeOf(msg.typeUrl) = undefined
    THEN [ok |-> FALSE, msg |-> [type |-> undefined]]
  ELSE [ok |-> TRUE,
        msg |-> [type |-> "cosmos-sdk/MsgSend",
                 value |-> [from_address |-> msg.value.fromAddress,
                            to_address |-> msg.value.toAddress,
                            amount |-> msg.value.amount]]]

\* aminoTypes.fromAmino(msg)
fromAmino(amsg) ==
  IF amsg.type # "cosmos-sdk/MsgSend"
    THEN [ok |-> FALSE, msg |-> [typeUrl |-> undefined]]
  ELSE [ok |-> TRUE,
        msg |-> [typeUrl |-> MsgSendUrl,
                 value |-> [kind |-> "send",
                            fromAddress |-> amsg.value.from_address,
                            toAddress |-> amsg.value.to_address,
                            amount |-> amsg.value.amount]]]

\* ------------------------------------------------------------ the fee table
\* const defaultGasLimits
defaultGasLimits ==
  [cyberlink |-> 256000, convert |-> 128000, send |-> 128000,
   createRoute |-> 100000, editRoute |-> 100000, deleteRoute |-> 100000,
   editRouteAlias |-> 100000]

OperationKinds == DOMAIN defaultGasLimits

\* a gas price: the decimal amount as a fraction, and the denomination
GasPrice(num, den, denom) == [given |-> TRUE, num |-> num, den |-> den, denom |-> denom]

\* GasPrice.fromString("0.001nick")
defaultGasPrice == GasPrice(1, 1000, "nick")

\* an option the caller did not pass
NotGiven == [given |-> FALSE]

\* a gas limit of an options.gasLimits object, or the absence of the key
Limit(n) == [given |-> TRUE, value |-> n]

\* calculateFee with Math.floor in place of Math.ceil
calculateFee_floor(gasLimit, gasPrice) ==
  [amount |-> << [denom |-> gasPrice.denom,
                  amount |-> NumberToString((gasLimit * gasPrice.num) \div gasPrice.den)] >>,
   gas |-> NumberToString(gasLimit)]

\* calculateFee(gasLimit, gasPrice): Math.ceil(price * gasLimit) coins of the
\* price's denomination, and the gas limit as a decimal string
calculateFee(gasLimit, gasPrice) ==
  [amount |-> << [denom |-> gasPrice.denom,
                  amount |-> NumberToString((gasLimit * gasPrice.num + gasPrice.den - 1)
                                              \div gasPrice.den)] >>,
   gas |-> NumberToString(gasLimit)]

\* buildFeeTable(gasPrice, defaultGasLimits, gasLimits):
\* calculateFee(gasLimits[type] || defaultGasLimit, gasPrice) for every default
buildFeeTable(gasPrice, defaults, gasLimits) ==
  [type \in DOMAIN defaults |->
     calculateFee(IF gasLimits[type].given /\ gasLimits[type].value # 0
                    THEN gasLimits[type].value
                  ELSE defaults[type],
                  gasPrice)]

\* the default limits as a gasLimits object
AsGasLimits(defaults) == [type \in DOMAIN defaults |-> Limit(defaults[type])]

\* the constructor that builds the table from the defaults alone
constructorFees_defaultsOnly(opts) ==
  buildFeeTable(IF opts.gasPrice.given THEN opts.gasPrice ELSE defaultGasPrice,
                defaultGasLimits,
                AsGasLimits(defaultGasLimits))

\* SigningCyberClient constructor: gasPrice = defaultGasPrice and
\* gasLimits = defaultGasLimits unless given, then buildFeeTable
constructorFees(opts) ==
  buildFeeTable(IF opts.gasPrice.given THEN opts.gasPrice ELSE defaultGasPrice,
                defaultGasLimits,
                IF opts.gasLimits.given THEN opts.gasLimits.limits
                ELSE AsGasLimits(defaultGasLimits))

\* the options of a client made with connectWithSigner(endpoint, signer)
NoOptions == [gasPrice |-> NotGiven, gasLimits |-> NotGiven]

\* ---------------------------------------------------------------- signing
SIGN_MODE_DIRECT == 1
SIGN_MODE_LEGACY_AMINO_JSON == 127

\* encodePubkey(encodeSecp256k1Pubkey(account.pubkey))
encodePubkey(rawkey) ==
  [typeUrl |-> "/cosmos.crypto.secp256k1.PubKey", key |-> << "base64", rawkey >>]

\* makeAuthInfoBytes(pubkeys, feeAmount, gasLimit, sequence, signMode)
makeAuthInfoBytes(pubkeys, feeAmount, gasLimit, sequence, signMode) ==
  [proto |-> "AuthInfo",
   signerInfos |-> [i \in 1..Len(pubkeys) |->
                      [publicKey |-> pubkeys[i],
                       mode |-> signMode,
                       sequence |-> LongFromNumber(sequence)]],
   feeAmount |-> feeAmount,
   gasLimit |-> LongFromNumber(gasLimit)]

\* makeSignDoc(bodyBytes, authInfoBytes, chainId, accountNumber) of proto-signing
makeSignDoc(bodyBytes, authInfoBytes, chainId, accountNumber) ==
  [kind |-> "direct",
   bodyBytes |-> bodyBytes,
   authInfoBytes |-> authInfoBytes,
   chainId |-> chainId,
   accountNumber |-> LongFromNumber(accountNumber)]

\* makeSignDoc(msgs, fee, chainId, memo, accountNumber, sequence) of launchpad
makeSignDocAmino(msgs, fee, chainId, memo, accountNumber, sequence) ==
  [kind |-> "amino",
   chain_id |-> chainId,
   account_number |-> Uint53String(accountNumber),
   sequence |-> Uint53String(sequence),
   fee |-> fee,
   msgs |-> msgs,
   memo |-> IF Truthy(memo) THEN memo ELSE ""]

\* ----------------------------------------------------------------- errors
\* an Error object; its message is a sequence of words
Error(words) == [name |-> "Error", message |-> words]

\* String(error)
String(error) == << "Error:" >> \o error.message

ErrSignerAccount == Error(<< "Failed", "to", "retrieve", "account", "from", "signer" >>)
ErrAccountNotFound == Error(<< "Account", "not", "found" >>)
ErrNoSequence == Error(<< "Account", "does", "not", "exist", "on", "chain." >>)
ErrChainIdEmpty == Error(<< "Chain", "ID", "must", "not", "be", "empty" >>)
ErrUnregistered == Error(<< "Unregistered", "type", "url" >>)
ErrInvalidString == Error(<< "Invalid", "string", "format" >>)
ErrAminoTypeUrl == Error(<< "Type", "URL", "does", "not", "exist", "in", "the", "Amino", "register" >>)
ErrAminoType == Error(<< "Type", "does", "not", "exist", "in", "the", "Amino", "register" >>)
ErrBase64 == Error(<< "Invalid", "base64", "string", "format" >>)
ErrUnsupportedType == Error(<< "Unsupported", "type" >>)

\* errors raised by the collaborators
ErrSignerRejected == Error(<< "Request", "rejected" >>)
ErrRpcNotFound ==
  Error(<< "Query", "failed", "with", "(18):", "rpc", "error:", "code", "=",
           "NotFound", "desc", "=", "account", "not", "found" >>)
ErrRpcUnavailable ==
  Error(<< "Query", "failed:", "rpc", "error:", "code", "=", "Unavailable" >>)
ErrTransport == Error(<< "socket", "hang", "up" >>)

\* lower-casing of the words the /i flag matters for
ToLower(w) ==
  CASE w = "NotFound" -> "notfound"
    [] w = "RPC" -> "rpc"
    [] w = "Error:" -> "error:"
    [] w = "Code" -> "code"
    [] OTHER -> w

\* the test without the i flag
MatchesNotFound_caseSensitive(s) ==
  \E i \in 1..Len(s) :
    /\ i + 4 <= Len(s)
    /\ \A k \in 1..5 :
         s[i + k - 1] = << "rpc", "error:", "code", "=", "notfound" >>[k]

\* the pattern of getAccount, lower-cased
NotFoundPattern == << "rpc", "error:", "code", "=", "notfound" >>

\* /rpc error: code = NotFound/i.test(s)
MatchesNotFound(s) ==
  \E i \in 1..Len(s) :
    /\ i + Len(NotFoundPattern) - 1 <= Len(s)
    /\ \A k \in 1..Len(NotFoundPattern) : ToLower(s[i + k - 1]) = NotFoundPattern[k]

\* ------------------------------------------------------------------ state
VARIABLES
  chainId,        \* CyberClient.chainId, the chain-id cache
  signer,         \* SigningCyberClient.signer: which methods the signer object has
  chain,          \* the accounts on chain, by address
  calls,          \* the call each caller has in flight: position, locals, result
  chainIdWrites,  \* how often CyberClient.chainId has been assigned
  options,        \* the options the client was constructed with
  fees,           \* SigningCyberClient.fees
  txIndex,        \* the transactions the node has indexed, in block order
  codesCache      \* CyberClient.codesCache: code id to CodeDetails

vars == << chainId, signer, chain, calls, chainIdWrites, options, fees, txIndex, codesCache >>

BaseAccountUrl == "/cosmos.auth.v1beta1.BaseAccount"

\* the Any the auth query returns for an on-chain account
AccountAny(address) ==
  [present |-> TRUE, typeUrl |-> chain[address].typeUrl, address |-> address,
   accountNumber |-> chain[address].accountNumber,
   sequence |-> chain[address].sequence]

NullAny == [present |-> FALSE]

\* what queryClient.auth.account(address) may answer
AccountAnswers(address) ==
  { [throws |-> TRUE, error |-> e, account |-> NullAny] :
      e \in {ErrRpcUnavailable, ErrTransport} }
  \cup
  ( IF chain[address].exists
      THEN { [throws |-> FALSE, error |-> ErrTransport, account |-> AccountAny(address)] }
    ELSE { [throws |-> FALSE, error |-> ErrTransport, account |-> NullAny],
           [throws |-> TRUE, error |-> ErrRpcNotFound, account |-> NullAny] } )

\* accountFromAny(account)
accountFromAny(any) ==
  IF any.typeUrl = BaseAccountUrl
    THEN [ok |-> TRUE,
          account |-> [address |-> any.address,
                       accountNumber |-> any.accountNumber,
                       sequence |-> any.sequence]]
  ELSE [ok |-> FALSE, account |-> [address |-> undefined]]

Null == [null |-> TRUE]

\* getAccount with a catch that turns every error into null
getAccount_swallow(answer) ==
  IF answer.throws THEN [status |-> "ok", value |-> Null]
  ELSE IF answer.account.present
    THEN IF accountFromAny(answer.account).ok
           THEN [status |-> "ok", value |-> accountFromAny(answer.account).account]
         ELSE [status |-> "err", value |-> ErrUnsupportedType]
  ELSE [status |-> "ok", value |-> Null]

\* CyberClient.getAccount, from the answer of the query layer on
getAccount(answer) ==
  IF answer.throws
    THEN IF MatchesNotFound(String(answer.error))
           THEN [status |-> "ok", value |-> Null]
         ELSE [status |-> "err", value |-> answer.error]
  ELSE IF answer.account.present
    THEN IF accountFromAny(answer.account).ok
           THEN [status |-> "ok", value |-> accountFromAny(answer.account).account]
         ELSE [status |-> "err", value |-> ErrUnsupportedType]
  ELSE [status |-> "ok", value |-> Null]

\* the capability test on the wrong method
isOfflineDirectSigner_notAmino(s) == ~s.signAmino

\* isOfflineDirectSigner(signer)
isOfflineDirectSigner(s) == s.signDirect

NoArgs == [signerAddress |-> undefined]
NoDoc == [kind |-> "none"]
NoTx == [proto |-> "none"]
NoAnswer == [throws |-> FALSE, error |-> ErrTransport, account |-> NullAny, none |-> TRUE]
NoResponse == [code |-> -1]

\* a query of searchTx that has not been answered
NoPart == [answered |-> FALSE, txs |-> << >>]

\* an optional Uint8Array: undefined, or the bytes
NoKey == [defined |-> FALSE]
Key(bytes) == [defined |-> TRUE, bytes |-> bytes]

\* the code ids callers ask for: 1 and 2 are stored on chain, 9 is not
CodeIds == {1, 2, 9}

\* number of requests a call has sent to each collaborator
NoRequests ==
  [getAccounts |-> 0, account |-> 0, status |-> 0,
   signDirect |-> 0, signAmino |-> 0, broadcast |-> 0, txSearch |-> 0,
   listCodeInfo |-> 0, listContracts |-> 0, getCode |-> 0]

IdleCall ==
  [op |-> "none", pc |-> "idle", args |-> NoArgs,
   pubkey |-> encodePubkey(undefined), account |-> Null, chainId |-> undefined,
   signDoc |-> NoDoc, signed |-> NoDoc, tx |-> NoTx,
   result |-> [status |-> "pending", value |-> Null],
   asked |-> NoRequests, gotAccounts |-> FALSE, answer |-> NoAnswer,
   cacheSeen |-> undefined, broadcasted |-> NoResponse, helper |-> "none",
   query |-> << >>, given |-> NoArgs,
   collected |-> << >>, startAtKey |-> NoKey, sawLast |-> FALSE, cached |-> Null,
   partial |-> [sent |-> NoPart, received |-> NoPart]]

Fail(call, error) ==
  [call EXCEPT !.pc = "done", !.result = [status |-> "err", value |-> error]]

Succeed(call, value) ==
  [call EXCEPT !.pc = "done", !.result = [status |-> "ok", value |-> value]]

\* ------------------------------------------------------ signAndBroadcast
\* the lookup that falls back to the signer's first account
findAccount_first(accounts, signerAddress) ==
  IF \E i \in 1..Len(accounts) : accounts[i].address = signerAddress
    THEN [found |-> TRUE,
          account |-> accounts[CHOOSE i \in 1..Len(accounts) :
                                  accounts[i].address = signerAddress]]
  ELSE [found |-> TRUE, account |-> accounts[1]]

\* (await this.signer.getAccounts()).find((account) => account.address === signerAddress)
findAccount(accounts, signerAddress) ==
  IF \E i \in 1..Len(accounts) : accounts[i].address = signerAddress
    THEN [found |-> TRUE,
          account |-> accounts[CHOOSE i \in 1..Len(accounts) :
                                  /\ accounts[i].address = signerAddress
                                  /\ \A j \in 1..(i - 1) : accounts[j].address # signerAddress]]
  ELSE [found |-> FALSE, account |-> [address |-> undefined, pubkey |-> undefined]]

\* account state kept from another call in flight instead of this call's answer
accountFromChain_cached(call, account) ==
  IF \E d \in Callers : calls[d].account # Null
    THEN calls[CHOOSE d \in Callers : calls[d].account # Null].account
  ELSE account

\* const { accountNumber, sequence } = accountFromChain
accountFromChain(call, account) == account

\* the account number passed where makeAuthInfoBytes expects the sequence
directSignDoc_swapped(call, txBodyBytes, gasLimit) ==
  makeSignDoc(txBodyBytes,
              makeAuthInfoBytes(<< call.pubkey >>, call.args.fee.amount, gasLimit,
                                call.account.accountNumber, SIGN_MODE_DIRECT),
              call.chainId,
              call.account.accountNumber)

\* the sign doc built with the sequence the chain has at the time of signing
directSignDoc_liveSequence(call, txBodyBytes, gasLimit) ==
  makeSignDoc(txBodyBytes,
              makeAuthInfoBytes(<< call.pubkey >>, call.args.fee.amount, gasLimit,
                                chain[call.args.signerAddress].sequence, SIGN_MODE_DIRECT),
              call.chainId,
              call.account.accountNumber)

\* direct mode: makeAuthInfoBytes([pubkey], fee.amount, gasLimit, sequence), then
\* makeSignDoc(txBodyBytes, authInfoBytes, chainId, accountNumber)
directSignDoc(call, txBodyBytes, gasLimit) ==
  makeSignDoc(txBodyBytes,
              makeAuthInfoBytes(<< call.pubkey >>, call.args.fee.amount, gasLimit,
                                call.account.sequence, SIGN_MODE_DIRECT),
              call.chainId,
              call.account.accountNumber)

\* Amino mode: makeSignDocAmino(msgs, fee, chainId, memo, accountNumber, sequence)
aminoSignDoc(call, msgs) ==
  makeSignDocAmino(msgs, call.args.fee, call.chainId, call.args.memo,
                   call.account.accountNumber, call.account.sequence)

\* signAndBroadcast from the chain id on, up to the request to the signer
prepareAndSign(call) ==
  LET txBody == [messages |-> call.args.messages, memo |-> call.args.memo]
      txBodyBytes == EncodeTxBody(txBody)
      gasLimit == Int53FromString(call.args.fee.gas)
      msgs == [i \in 1..Len(call.args.messages) |-> toAmino(call.args.messages[i])]
  IN  IF ~txBodyBytes.ok THEN Fail(call, ErrUnregistered)
      ELSE IF ~gasLimit.ok THEN Fail(call, ErrInvalidString)
      ELSE IF isOfflineDirectSigner(signer)
        THEN [call EXCEPT !.pc = "signDirect",
                          !.signDoc = directSignDoc(call, txBodyBytes.bytes, gasLimit.value),
                          !.asked.signDirect = @ + 1]
      ELSE IF \E i \in 1..Len(msgs) : ~msgs[i].ok THEN Fail(call, ErrAminoTypeUrl)
      ELSE [call EXCEPT !.pc = "signAmino",
                        !.signDoc = aminoSignDoc(call, [i \in 1..Len(msgs) |-> msgs[i].msg]),
                        !.asked.signAmino = @ + 1]

\* what follows once getChainId has produced id
afterChainId(call, id) ==
  IF call.op = "getChainId" THEN Succeed([call EXCEPT !.chainId = id], id)
  ELSE prepareAndSign([call EXCEPT !.chainId = id])

\* getChainId that goes on with the cache as it is, without the status request
getChainId_noAwait(call) == afterChainId([call EXCEPT !.cacheSeen = chainId], chainId)

\* CyberClient.getChainId up to its await: the cached value, or a status request
getChainId(call) ==
  IF Truthy(chainId)
    THEN afterChainId([call EXCEPT !.cacheSeen = chainId], chainId)
  ELSE [call EXCEPT !.pc = "status", !.asked.status = @ + 1]

\* fromBase64(signature.signature)
fromBase64(b64) ==
  IF b64.wellFormed THEN [ok |-> TRUE, bytes |-> << "raw", b64.over >>]
  ELSE [ok |-> FALSE, bytes |-> << >>]

\* TxRaw.encode(TxRaw.fromPartial({bodyBytes, authInfoBytes, signatures})).finish()
TxRaw(bodyBytes, authInfoBytes, signatures) ==
  [proto |-> "TxRaw", bodyBytes |-> bodyBytes, authInfoBytes |-> authInfoBytes,
   signatures |-> signatures]

\* this.broadcastTx(signedTx) up to its await
broadcastTx(call, signedTx) ==
  [call EXCEPT !.pc = "broadcast", !.tx = signedTx, !.asked.broadcast = @ + 1]

\* the envelope built from the bytes the client made itself
directTxRaw_local(call, response) ==
  TxRaw(call.signDoc.bodyBytes, call.signDoc.authInfoBytes,
        << fromBase64(response.signature.signature).bytes >>)

\* the envelope of the direct branch
directTxRaw(call, response) ==
  TxRaw(response.signed.bodyBytes, response.signed.authInfoBytes,
        << fromBase64(response.signature.signature).bytes >>)

\* a direct branch that asks the signer again after a rejection
signedDirect_retry(call, response) ==
  IF response.rejected THEN [call EXCEPT !.asked.signDirect = @ + 1]
  ELSE IF ~fromBase64(response.signature.signature).ok
    THEN Fail([call EXCEPT !.signed = response.signed], ErrBase64)
  ELSE broadcastTx([call EXCEPT !.signed = response.signed], directTxRaw(call, response))

\* the direct branch once signDirect has returned
signedDirect(call, response) ==
  IF response.rejected THEN Fail(call, ErrSignerRejected)
  ELSE IF ~fromBase64(response.signature.signature).ok
    THEN Fail([call EXCEPT !.signed = response.signed], ErrBase64)
  ELSE broadcastTx([call EXCEPT !.signed = response.signed], directTxRaw(call, response))

\* the envelope that takes the fee amount from the caller's fee
aminoTxRaw_callerFee(call, response, signedTxBodyBytes, signedGasLimit, signedSequence) ==
  TxRaw(signedTxBodyBytes,
        makeAuthInfoBytes(<< call.pubkey >>, call.args.fee.amount,
                          signedGasLimit, signedSequence, SIGN_MODE_LEGACY_AMINO_JSON),
        << fromBase64(response.signature.signature).bytes >>)

\* the envelope of the Amino branch, from the signed document and the parsed numbers
aminoTxRaw(call, response, signedTxBodyBytes, signedGasLimit, signedSequence) ==
  TxRaw(signedTxBodyBytes,
        makeAuthInfoBytes(<< call.pubkey >>, response.signed.fee.amount,
                          signedGasLimit, signedSequence, SIGN_MODE_LEGACY_AMINO_JSON),
        << fromBase64(response.signature.signature).bytes >>)

\* the body the Amino branch encodes after signing
signedTxBody(call, response, messages) ==
  [messages |-> messages, memo |-> response.signed.memo]

\* the Amino branch once signAmino has returned
signedAmino(call, response) ==
  IF response.rejected THEN Fail(call, ErrSignerRejected)
  ELSE
    LET call2 == [call EXCEPT !.signed = response.signed]
        back == [i \in 1..Len(response.signed.msgs) |-> fromAmino(response.signed.msgs[i])]
        messages == [i \in 1..Len(back) |-> back[i].msg]
        signedTxBodyBytes == EncodeTxBody(signedTxBody(call, response, messages))
        signedGasLimit == Int53FromString(response.signed.fee.gas)
        signedSequence == Int53FromString(response.signed.sequence)
    IN  IF \E i \in 1..Len(back) : ~back[i].ok THEN Fail(call2, ErrAminoType)
        ELSE IF ~signedTxBodyBytes.ok THEN Fail(call2, ErrUnregistered)
        ELSE IF ~signedGasLimit.ok \/ ~signedSequence.ok THEN Fail(call2, ErrInvalidString)
        ELSE IF ~fromBase64(response.signature.signature).ok THEN Fail(call2, ErrBase64)
        ELSE broadcastTx(call2, aminoTxRaw(call, response, signedTxBodyBytes.bytes,
                                           signedGasLimit.value, signedSequence.value))

\* ----------------------------------------------------- the external signer
\* a signature object: the base64 text, well formed or not, over what was signed
Signature(doc, wellFormed) ==
  [pub_key |-> "signer-key", signature |-> [wellFormed |-> wellFormed, over |-> doc]]

Rejection == [rejected |-> TRUE, signed |-> NoDoc, signature |-> Signature(NoDoc, FALSE)]

Signed(doc, wellFormed) ==
  [rejected |-> FALSE, signed |-> doc, signature |-> Signature(doc, wellFormed)]

\* what signDirect may answer to doc: a rejection, the echo, the echo with a
\* malformed signature text, or a document the signer changed before signing
DirectResponses(doc) ==
  { Rejection, Signed(doc, TRUE), Signed(doc, FALSE),
    Signed([doc EXCEPT !.bodyBytes.memo = "signer memo"], TRUE),
    Signed([doc EXCEPT !.authInfoBytes.gasLimit = LongFromNumber(99)], TRUE) }

MsgSendAminoA2 ==
  [type |-> "cosmos-sdk/MsgSend",
   value |-> [from_address |-> "a1", to_address |-> "a2", amount |-> Coins]]

\* the document an Amino signer returns when it normalises every field it may
Normalised(doc) ==
  [doc EXCEPT !.msgs = << MsgSendAminoA2 >>,
              !.memo = "signer memo",
              !.fee = [amount |-> << [denom |-> "nick", amount |-> << "2" >>] >>,
                       gas |-> << "3", "4" >>],
              !.sequence = << "9" >>]

\* what signAmino may answer to doc
AminoResponses(doc) ==
  { Rejection, Signed(doc, TRUE), Signed(doc, FALSE),
    Signed(Normalised(doc), TRUE),
    Signed([doc EXCEPT !.fee.gas = << "x" >>], TRUE),
    Signed([doc EXCEPT !.sequence = << "1", "e", "3" >>], TRUE),
    Signed([doc EXCEPT !.msgs = << [type |-> "other/Msg", value |-> [kind |-> "other"]] >>],
           TRUE) }

\* ---------------------------------------------------------------- the node
\* the address that belongs to an encoded public key
AddressOfKey(pubkey) ==
  IF \E i \in 1..Len(SignerAccounts) : encodePubkey(SignerAccounts[i].pubkey) = pubkey
    THEN SignerAccounts[CHOOSE i \in 1..Len(SignerAccounts) :
                          encodePubkey(SignerAccounts[i].pubkey) = pubkey].address
  ELSE undefined

DecodeAny(any) == [typeUrl |-> any.typeUrl, value |-> any.bytes[2]]

\* the document the node checks a signature against, rebuilt from the envelope
ExpectedSignDoc(tx, account) ==
  LET info == tx.authInfoBytes.signerInfos[1]
  IN  IF info.mode = SIGN_MODE_DIRECT
        THEN makeSignDoc(tx.bodyBytes, tx.authInfoBytes, NodeNetwork, account.accountNumber)
      ELSE [kind |-> "amino",
            chain_id |-> NodeNetwork,
            account_number |-> Uint53String(account.accountNumber),
            sequence |-> IF info.sequence.wire = "uint64"
                           THEN NumberToString(info.sequence.value) ELSE << "wrapped" >>,
            fee |-> [amount |-> tx.authInfoBytes.feeAmount,
                     gas |-> IF tx.authInfoBytes.gasLimit.wire = "uint64"
                               THEN NumberToString(tx.authInfoBytes.gasLimit.value)
                             ELSE << "wrapped" >>],
            msgs |-> [i \in 1..Len(tx.bodyBytes.messages) |->
                        toAmino(DecodeAny(tx.bodyBytes.messages[i])).msg],
            memo |-> tx.bodyBytes.memo]

\* the code of the node's synchronous check of a transaction
CheckTx(tx) ==
  LET info == tx.authInfoBytes.signerInfos[1]
      address == AddressOfKey(info.publicKey)
  IN  IF address = undefined THEN 9
      ELSE IF ~chain[address].exists THEN 9
      ELSE IF info.sequence # LongFromNumber(chain[address].sequence) THEN 32
      ELSE IF tx.signatures[1] # << "raw", ExpectedSignDoc(tx, chain[address]) >> THEN 4
      ELSE 0

HexDigit(n) ==
  CASE n < 10 -> DigitChar(n)
    [] n = 10 -> "a" [] n = 11 -> "b" [] n = 12 -> "c"
    [] n = 13 -> "d" [] n = 14 -> "e" [] n = 15 -> "f"

\* toHex(bytes)
RECURSIVE toHex(_)
toHex(bytes) ==
  IF Len(bytes) = 0 THEN << >>
  ELSE << HexDigit(bytes[1] \div 16), HexDigit(bytes[1] % 16) >> \o toHex(Tail(bytes))

UpperChar(ch) ==
  CASE ch = "a" -> "A" [] ch = "b" -> "B" [] ch = "c" -> "C"
    [] ch = "d" -> "D" [] ch = "e" -> "E" [] ch = "f" -> "F"
    [] OTHER -> ch

\* String.prototype.toUpperCase
toUpperCase(str) == [i \in 1..Len(str) |-> UpperChar(str[i])]

\* the hash the node computes for a transaction
TxHash(tx) ==
  << 171, (16 * tx.authInfoBytes.signerInfos[1].sequence.value
           + (tx.authInfoBytes.signerInfos[1].mode % 16)) % 256 >>

\* the answer of broadcastTxSync({ tx })
BroadcastTxSyncResponse(tx) ==
  [code |-> CheckTx(tx),
   log |-> IF CheckTx(tx) = 0 THEN "[]" ELSE "rejected by the node",
   hash |-> TxHash(tx),
   gasUsed |-> 0,
   gasWanted |-> 0]

\* a result whose transaction id is the hexadecimal text as toHex gives it
broadcastTxResult_lowerHex(broadcasted) ==
  [code |-> broadcasted.code,
   height |-> 0,
   rawLog |-> broadcasted.log,
   transactionHash |-> toHex(broadcasted.hash),
   gasUsed |-> broadcasted.gasUsed,
   gasWanted |-> broadcasted.gasWanted]

\* a result that reports every transaction as accepted
broadcastTxResult_accepted(broadcasted) ==
  [code |-> 0,
   height |-> 0,
   rawLog |-> broadcasted.log,
   transactionHash |-> toUpperCase(toHex(broadcasted.hash)),
   gasUsed |-> broadcasted.gasUsed,
   gasWanted |-> broadcasted.gasWanted]

\* CyberClient.broadcastTx from the node's answer on
broadcastTxResult(broadcasted) ==
  [code |-> broadcasted.code,
   height |-> 0,
   rawLog |-> broadcasted.log,
   transactionHash |-> toUpperCase(toHex(broadcasted.hash)),
   gasUsed |-> broadcasted.gasUsed,
   gasWanted |-> broadcasted.gasWanted]

\* broadcastTx that throws when the node answers with a non-zero code
broadcastTxReturn_assertSuccess(call, broadcasted) ==
  IF broadcasted.code # 0
    THEN Fail([call EXCEPT !.broadcasted = broadcasted],
              Error(<< "Broadcasting", "transaction", "failed" >>))
  ELSE Succeed([call EXCEPT !.broadcasted = broadcasted], broadcastTxResult(broadcasted))

\* CyberClient.broadcastTx returns to signAndBroadcast, which returns its result
broadcastTxReturn(call, broadcasted) ==
  Succeed([call EXCEPT !.broadcasted = broadcasted], broadcastTxResult(broadcasted))

\* ------------------------------------------------- per-operation helpers
\* isBroadcastTxFailure(result)
isBroadcastTxFailure(result) == result.code # 0

\* createBroadcastTxErrorMessage(result)
createBroadcastTxErrorMessage(result) ==
  << "Error", "when", "broadcasting", "tx" >> \o result.transactionHash
    \o << "at", "height" >> \o NumberToString(result.height)
    \o << "Code:" >> \o NumberToString(result.code)
    \o << "Raw", "log:", result.rawLog >>

\* logs.parseRawLog(rawLog): JSON.parse, then an array of logs or an error
parseRawLog(rawLog) ==
  IF rawLog = "[]" THEN [ok |-> TRUE, logs |-> << >>]
  ELSE [ok |-> FALSE, logs |-> << >>]

\* what a helper does with the outcome of its signAndBroadcast call: an
\* exception passes through, a failure is thrown, a success becomes the
\* helper's result of logs and transaction hash
helperReturn(call) ==
  IF call.helper = "none" \/ call.result.status # "ok" THEN call
  ELSE IF isBroadcastTxFailure(call.result.value)
    THEN Fail(call, Error(createBroadcastTxErrorMessage(call.result.value)))
  ELSE IF ~parseRawLog(call.result.value.rawLog).ok
    THEN Fail(call, Error(<< "Unexpected", "token", "in", "JSON" >>))
  ELSE Succeed(call, [logs |-> parseRawLog(call.result.value.rawLog).logs,
                      transactionHash |-> call.result.value.transactionHash])

\* this.signAndBroadcast(senderAddress, [msg], fee, memo) called by a helper
signAndBroadcastBy(helper, senderAddress, msg, fee, memo) ==
  [IdleCall EXCEPT !.op = "signAndBroadcast", !.helper = helper, !.pc = "getAccounts",
                   !.args = [signerAddress |-> senderAddress, messages |-> << msg >>,
                             fee |-> fee, memo |-> memo],
                   !.asked.getAccounts = 1]

\* the messages the helpers build
sendMsg(senderAddress, recipientAddress, transferAmount) ==
  [typeUrl |-> MsgSendUrl,
   value |-> [kind |-> "send", fromAddress |-> senderAddress,
              toAddress |-> recipientAddress, amount |-> transferAmount]]

cyberlinkMsg(senderAddress, from, to) ==
  [typeUrl |-> MsgCyberlinkUrl,
   value |-> [kind |-> "cyberlink", address |-> senderAddress,
              links |-> << [from |-> from, to |-> to] >>]]

\* endTime is Long.fromString(new Uint53(10000).toString())
convertResourcesMsg(senderAddress, amount, resource, time) ==
  [typeUrl |-> MsgConvertUrl,
   value |-> [kind |-> "convert", agent |-> senderAddress, amount |-> amount,
              resource |-> resource,
              endTime |-> ParseDigits(NumberToString(10000))]]

createEnergyRouteMsg(senderAddress, destination, alias) ==
  [typeUrl |-> MsgCreateEnergyRouteUrl,
   value |-> [kind |-> "createRoute", source |-> senderAddress,
              destination |-> destination, alias |-> alias]]

editEnergyRouteMsg(senderAddress, destination, value) ==
  [typeUrl |-> MsgEditEnergyRouteUrl,
   value |-> [kind |-> "editRoute", source |-> senderAddress,
              destination |-> destination, value |-> value]]

deleteEnergyRouteMsg(senderAddress, destination) ==
  [typeUrl |-> MsgDeleteEnergyRouteUrl,
   value |-> [kind |-> "deleteRoute", source |-> senderAddress,
              destination |-> destination]]

editEnergyRouteAliasMsg(senderAddress, destination, alias) ==
  [typeUrl |-> MsgEditEnergyRouteAliasUrl,
   value |-> [kind |-> "editRouteAlias", source |-> senderAddress,
              destination |-> destination, alias |-> alias]]

\* the accounts on chain when the client is created
InitialChain ==
  [a \in Addresses |->
     CASE a = "a1" -> [exists |-> TRUE, typeUrl |-> BaseAccountUrl,
                       accountNumber |-> 7, sequence |-> 0]
       [] a = "a2" -> [exists |-> FALSE, typeUrl |-> undefined,
                       accountNumber |-> 0, sequence |-> 0]
       [] a = "a3" -> [exists |-> TRUE, typeUrl |-> "/custom.v1.Account",
                       accountNumber |-> 8, sequence |-> 0]]

Init ==
  /\ chainId = undefined
  /\ signer \in { [signDirect |-> TRUE, signAmino |-> FALSE],
                  [signDirect |-> FALSE, signAmino |-> TRUE],
                  [signDirect |-> TRUE, signAmino |-> TRUE] }
  /\ chain = InitialChain
  /\ calls = [c \in Callers |-> IdleCall]
  /\ chainIdWrites = 0
  /\ options = NoOptions
  /\ fees = constructorFees(options)
  /\ txIndex = << >>
  /\ codesCache = [id \in CodeIds |-> Null]

\* ---------------------------------------------------------------- actions
\* a caller invokes client.getChainId()
CallGetChainId(c) ==
  /\ calls[c].pc = "idle"
  /\ calls' = [calls EXCEPT ![c] = getChainId([IdleCall EXCEPT !.op = "getChainId"])]
  /\ UNCHANGED << codesCache, txIndex, options, fees, chainId, signer, chain, chainIdWrites >>

\* a caller invokes client.getAccount(searchAddress): the query is sent
CallGetAccount(c, searchAddress) ==
  /\ calls[c].pc = "idle"
  /\ calls' = [calls EXCEPT ![c] =
                 [IdleCall EXCEPT !.op = "getAccount", !.pc = "account",
                                  !.args = [signerAddress |-> searchAddress],
                                  !.asked.account = 1]]
  /\ UNCHANGED << codesCache, txIndex, options, fees, chainId, signer, chain, chainIdWrites >>

\* a caller invokes client.getSequence(address): getAccount sends the query
CallGetSequence(c, address) ==
  /\ calls[c].pc = "idle"
  /\ calls' = [calls EXCEPT ![c] =
                 [IdleCall EXCEPT !.op = "getSequence", !.pc = "account",
                                  !.args = [signerAddress |-> address],
                                  !.asked.account = 1]]
  /\ UNCHANGED << codesCache, txIndex, options, fees, chainId, signer, chain, chainIdWrites >>

\* a caller invokes client.signAndBroadcast: the signer is asked for its accounts
CallSignAndBroadcast(c, signerAddress, messages, fee, memo) ==
  /\ calls[c].pc = "idle"
  /\ calls' = [calls EXCEPT ![c] =
                 [IdleCall EXCEPT !.op = "signAndBroadcast", !.pc = "getAccounts",
                                  !.args = [signerAddress |-> signerAddress,
                                            messages |-> messages,
                                            fee |-> fee, memo |-> memo],
                                  !.asked.getAccounts = 1]]
  /\ UNCHANGED << codesCache, txIndex, options, fees, chainId, signer, chain, chainIdWrites >>

\* signer.getAccounts() returns or throws; on a match the account query is sent
GetAccountsReturns(c) ==
  /\ calls[c].pc = "getAccounts"
  /\ \E throws \in BOOLEAN :
       LET call == calls[c]
           accountFromSigner == findAccount(SignerAccounts, call.args.signerAddress)
       IN  calls' = [calls EXCEPT ![c] =
             IF throws THEN Fail(call, ErrSignerRejected)
             ELSE IF ~accountFromSigner.found
               THEN Fail([call EXCEPT !.gotAccounts = TRUE], ErrSignerAccount)
             ELSE [call EXCEPT !.pubkey = encodePubkey(accountFromSigner.account.pubkey),
                               !.gotAccounts = TRUE,
                               !.pc = "account",
                               !.asked.account = @ + 1]]
  /\ UNCHANGED << codesCache, txIndex, options, fees, chainId, signer, chain, chainIdWrites >>

\* the account query is answered: getAccount returns to its caller
AccountReturns(c) ==
  /\ calls[c].pc = "account"
  /\ \E answer \in AccountAnswers(calls[c].args.signerAddress) :
       LET call == [calls[c] EXCEPT !.answer = answer]
           account == getAccount(answer)
       IN  calls' = [calls EXCEPT ![c] =
             CASE call.op = "getAccount" ->
                    [call EXCEPT !.pc = "done", !.result = account]
               [] call.op = "getSequence" ->
                    IF account.status = "err" THEN Fail(call, account.value)
                    ELSE IF account.value = Null THEN Fail(call, ErrNoSequence)
                    ELSE Succeed(call, [accountNumber |-> account.value.accountNumber,
                                        sequence |-> account.value.sequence])
               [] call.op = "signAndBroadcast" ->
                    IF account.status = "err" THEN Fail(call, account.value)
                    ELSE IF account.value = Null THEN Fail(call, ErrAccountNotFound)
                    ELSE getChainId([call EXCEPT !.account =
                                       accountFromChain(call, account.value)])]
  /\ UNCHANGED << codesCache, txIndex, options, fees, chainId, signer, chain, chainIdWrites >>

\* tmClient.status() fails: getChainId throws
StatusFails(c) ==
  /\ calls[c].pc = "status"
  /\ calls' = [calls EXCEPT ![c] = Fail(calls[c], ErrTransport)]
  /\ UNCHANGED << codesCache, txIndex, options, fees, chainId, signer, chain, chainIdWrites >>

\* getChainId that stores the network name before it checks it
StatusReturns_storeFirst(c, network) ==
  /\ calls[c].pc = "status"
  /\ chainId' = network
  /\ chainIdWrites' = chainIdWrites + 1
  /\ calls' = [calls EXCEPT ![c] =
                 IF ~Truthy(network) THEN Fail(calls[c], ErrChainIdEmpty)
                 ELSE afterChainId(calls[c], network)]
  /\ UNCHANGED << codesCache, txIndex, options, fees, signer, chain >>

\* tmClient.status() answers: getChainId checks and stores the network name
StatusReturns(c, network) ==
  /\ calls[c].pc = "status"
  /\ IF ~Truthy(network)
       THEN /\ calls' = [calls EXCEPT ![c] = Fail(calls[c], ErrChainIdEmpty)]
            /\ UNCHANGED << chainId, chainIdWrites >>
     ELSE /\ chainId' = network
          /\ chainIdWrites' = chainIdWrites + 1
          /\ calls' = [calls EXCEPT ![c] = afterChainId(calls[c], network)]
  /\ UNCHANGED << codesCache, txIndex, options, fees, signer, chain >>

\* signer.signDirect answers
SignDirectReturns(c) ==
  /\ calls[c].pc = "signDirect"
  /\ \E response \in DirectResponses(calls[c].signDoc) :
       calls' = [calls EXCEPT ![c] = signedDirect(calls[c], response)]
  /\ UNCHANGED << codesCache, txIndex, options, fees, chainId, signer, chain, chainIdWrites >>

\* signer.signAmino answers
SignAminoReturns(c) ==
  /\ calls[c].pc = "signAmino"
  /\ \E response \in AminoResponses(calls[c].signDoc) :
       calls' = [calls EXCEPT ![c] = signedAmino(calls[c], response)]
  /\ UNCHANGED << codesCache, txIndex, options, fees, chainId, signer, chain, chainIdWrites >>

\* tmClient.broadcastTxSync fails
BroadcastFails(c) ==
  /\ calls[c].pc = "broadcast"
  /\ calls' = [calls EXCEPT ![c] = Fail(calls[c], ErrTransport)]
  /\ UNCHANGED << codesCache, txIndex, options, fees, chainId, signer, chain, chainIdWrites >>

\* the node checks the transaction and answers; an accepted transaction
\* consumes the sequence of its signer
BroadcastReturns(c) ==
  /\ calls[c].pc = "broadcast"
  /\ LET broadcasted == BroadcastTxSyncResponse(calls[c].tx)
         address == AddressOfKey(calls[c].tx.authInfoBytes.signerInfos[1].publicKey)
     IN  /\ broadcasted.code = 0 => chain[address].sequence < MaxSequence
         /\ calls' = [calls EXCEPT ![c] =
                         helperReturn(broadcastTxReturn(calls[c], broadcasted))]
         /\ chain' = IF broadcasted.code = 0
                       THEN [chain EXCEPT ![address].sequence = @ + 1]
                     ELSE chain
  /\ UNCHANGED << codesCache, txIndex, options, fees, chainId, signer, chainIdWrites >>

\* the caller takes the result; it may call again
Return(c) ==
  /\ calls[c].pc = "done"
  /\ calls' = [calls EXCEPT ![c] = IdleCall]
  /\ UNCHANGED << codesCache, txIndex, options, fees, chainId, signer, chain, chainIdWrites >>

\* a transaction of a1 signed elsewhere is included in a block
OtherTxLands ==
  /\ chain["a1"].sequence < MaxSequence
  /\ chain' = [chain EXCEPT !["a1"].sequence = @ + 1]
  /\ UNCHANGED << codesCache, txIndex, options, fees, chainId, signer, calls, chainIdWrites >>

Next ==
  \/ \E c \in Callers : CallGetChainId(c)
  \/ \E c \in Callers, a \in Addresses : CallGetAccount(c, a)
  \/ \E c \in Callers, a \in Addresses : CallGetSequence(c, a)
  \/ \E c \in Callers, r \in SignRequests :
       CallSignAndBroadcast(c, r.signerAddress, r.messages, r.fee, r.memo)
  \/ \E c \in Callers : GetAccountsReturns(c)
  \/ \E c \in Callers : AccountReturns(c)
  \/ \E c \in Callers : StatusFails(c)
  \/ \E c \in Callers, n \in Networks : StatusReturns(c, n)
  \/ \E c \in Callers : SignDirectReturns(c)
  \/ \E c \in Callers : SignAminoReturns(c)
  \/ \E c \in Callers : BroadcastFails(c)
  \/ \E c \in Callers : BroadcastReturns(c)
  \/ \E c \in Callers : Return(c)
  \/ OtherTxLands

Spec == Init /\ [][Next]_vars

\* ------------------------------------------------ calls of the helpers
\* the caller that uses the helpers
HelperCallers == {"c1"}

HelperUnchanged == UNCHANGED << codesCache, txIndex, options, fees, chainId, signer, chain, chainIdWrites >>

sendTokens(c, senderAddress, recipientAddress, transferAmount, memo) ==
  /\ calls[c].pc = "idle"
  /\ calls' = [calls EXCEPT ![c] =
       signAndBroadcastBy("sendTokens", senderAddress,
                          sendMsg(senderAddress, recipientAddress, transferAmount),
                          fees.send, memo)]
  /\ HelperUnchanged

cyberlink(c, senderAddress, from, to, memo) ==
  /\ calls[c].pc = "idle"
  /\ calls' = [calls EXCEPT ![c] =
       signAndBroadcastBy("cyberlink", senderAddress,
                          cyberlinkMsg(senderAddress, from, to), fees.cyberlink, memo)]
  /\ HelperUnchanged

convertResources(c, senderAddress, amount, resource, time, memo) ==
  /\ calls[c].pc = "idle"
  /\ calls' = [calls EXCEPT ![c] =
       [signAndBroadcastBy("convertResources", senderAddress,
                           convertResourcesMsg(senderAddress, amount, resource, time),
                           fees.convert, memo)
          EXCEPT !.given = [senderAddress |-> senderAddress, amount |-> amount,
                            resource |-> resource, time |-> time]]]
  /\ HelperUnchanged

createEnergyRoute(c, senderAddress, destination, alias, memo) ==
  /\ calls[c].pc = "idle"
  /\ calls' = [calls EXCEPT ![c] =
       signAndBroadcastBy("createEnergyRoute", senderAddress,
                          createEnergyRouteMsg(senderAddress, destination, alias),
                          fees.createRoute, memo)]
  /\ HelperUnchanged

editEnergyRoute(c, senderAddress, destination, value, memo) ==
  /\ calls[c].pc = "idle"
  /\ calls' = [calls EXCEPT ![c] =
       signAndBroadcastBy("editEnergyRoute", senderAddress,
                          editEnergyRouteMsg(senderAddress, destination, value),
                          fees.editRoute, memo)]
  /\ HelperUnchanged

deleteEnergyRoute(c, senderAddress, destination, memo) ==
  /\ calls[c].pc = "idle"
  /\ calls' = [calls EXCEPT ![c] =
       signAndBroadcastBy("deleteEnergyRoute", senderAddress,
                          deleteEnergyRouteMsg(senderAddress, destination),
                          fees.deleteRoute, memo)]
  /\ HelperUnchanged

editEnergyRouteAlias(c, senderAddress, destination, alias, memo) ==
  /\ calls[c].pc = "idle"
  /\ calls' = [calls EXCEPT ![c] =
       signAndBroadcastBy("editEnergyRouteAlias", senderAddress,
                          editEnergyRouteAliasMsg(senderAddress, destination, alias),
                          fees.editRouteAlias, memo)]
  /\ HelperUnchanged

\* the senders and the times the caller of the helpers passes
HelperSenders == {"a1", "a2"}
ConvertTimes == {10000, 86400}
Volts == [denom |-> "volt", amount |-> "5"]

NextHelpers ==
  \/ \E c \in HelperCallers, a \in HelperSenders, memo \in {"", "hello"} :
       sendTokens(c, a, "a3", Coins, memo)
  \/ \E c \in HelperCallers : cyberlink(c, "a1", "Qm1", "Qm2", "")
  \/ \E c \in HelperCallers, time \in ConvertTimes :
       convertResources(c, "a1", Coins[1], "volt", time, "")
  \/ \E c \in HelperCallers : createEnergyRoute(c, "a1", "a3", "alias", "")
  \/ \E c \in HelperCallers : editEnergyRoute(c, "a1", "a3", Volts, "")
  \/ \E c \in HelperCallers : deleteEnergyRoute(c, "a1", "a3", "")
  \/ \E c \in HelperCallers : editEnergyRouteAlias(c, "a1", "a3", "other", "")
  \/ \E c \in HelperCallers : GetAccountsReturns(c)
  \/ \E c \in HelperCallers : AccountReturns(c)
  \/ \E c \in HelperCallers : StatusFails(c)
  \/ \E c \in HelperCallers, n \in Networks : StatusReturns(c, n)
  \/ \E c \in HelperCallers : SignDirectReturns(c)
  \/ \E c \in HelperCallers : SignAminoReturns(c)
  \/ \E c \in HelperCallers : BroadcastFails(c)
  \/ \E c \in HelperCallers : BroadcastReturns(c)
  \/ \E c \in HelperCallers : Return(c)
  \/ OtherTxLands

SpecHelpers == Init /\ [][NextHelpers]_vars

\* ---------------------------------------------------- transaction lookup
\* the value of a hexadecimal digit of either case
HexValue(ch) ==
  CASE ch \in Digits -> DigitValue(ch)
    [] ch \in {"a", "A"} -> 10 [] ch \in {"b", "B"} -> 11 [] ch \in {"c", "C"} -> 12
    [] ch \in {"d", "D"} -> 13 [] ch \in {"e", "E"} -> 14 [] ch \in {"f", "F"} -> 15

HexChars == Digits \cup {"a", "b", "c", "d", "e", "f", "A", "B", "C", "D", "E", "F"}

IsHex(str) == Len(str) % 2 = 0 /\ \A i \in 1..Len(str) : str[i] \in HexChars

\* the bytes a hexadecimal text stands for
RECURSIVE fromHex(_)
fromHex(str) ==
  IF Len(str) < 2 THEN << >>
  ELSE << 16 * HexValue(str[1]) + HexValue(str[2]) >> \o fromHex(Tail(Tail(str)))

\* the query text `tx.hash='${id}'`
TxHashQuery(id) == << "tx.hash='" >> \o id \o << "'" >>

\* the node's txSearchAll({ query }) for a query by hash: the node decodes the
\* quoted value as hexadecimal and returns the indexed transactions with that hash
txSearchAll(query) ==
  LET value == SubSeq(query, 2, Len(query) - 1)
  IN  IF Len(query) < 2 \/ query[1] # "tx.hash='" \/ query[Len(query)] # "'" \/ ~IsHex(value)
        THEN [ok |-> FALSE, txs |-> << >>]
      ELSE [ok |-> TRUE, txs |-> SelectSeq(txIndex, LAMBDA t : t.hash = fromHex(value))]

\* CyberClient.txsQuery from the node's answer on: one IndexedTx per transaction
txsQuery(results) ==
  [i \in 1..Len(results.txs) |->
     [height |-> results.txs[i].height,
      hash |-> toUpperCase(toHex(results.txs[i].hash)),
      code |-> results.txs[i].result.code,
      rawLog |-> IF Truthy(results.txs[i].result.log)
                   THEN results.txs[i].result.log ELSE "",
      tx |-> results.txs[i].tx,
      gasUsed |-> results.txs[i].result.gasUsed,
      gasWanted |-> results.txs[i].result.gasWanted]]

\* getTx after txsQuery: results[0] ?? null
getTxResult(results) == IF Len(results) > 0 THEN results[1] ELSE Null

\* an envelope of a1 for the given sequence with a signature the node accepts
SignedEnvelope(sequence) ==
  LET call == [IdleCall EXCEPT
                 !.pubkey = encodePubkey(SignerAccounts[1].pubkey),
                 !.chainId = NodeNetwork,
                 !.account = [address |-> "a1", accountNumber |-> 7,
                              sequence |-> sequence],
                 !.args = [signerAddress |-> "a1", messages |-> << MsgSendA1 >>,
                           fee |-> [amount |-> FeeAmount, gas |-> << "1", "2" >>],
                           memo |-> ""]]
      txBodyBytes == EncodeTxBody([messages |-> call.args.messages,
                                   memo |-> call.args.memo]).bytes
      signDoc == directSignDoc(call, txBodyBytes, 12)
  IN  directTxRaw(call, Signed(signDoc, TRUE))

\* the envelopes a caller hands to broadcastTx
LookupTxs == { SignedEnvelope(n) : n \in 0..MaxSequence }

\* the ids a caller hands to getTx: the id of each envelope as broadcastTx
\* renders it, the same in lower case, and text that is no hash
LookupIds ==
  { toUpperCase(toHex(TxHash(t))) : t \in LookupTxs }
    \cup { toHex(TxHash(t)) : t \in LookupTxs }
    \cup { << "A", "B" >>, << "x", "y" >> }

\* a caller invokes client.broadcastTx(tx)
CallBroadcastTx(c, tx) ==
  /\ calls[c].pc = "idle"
  /\ calls' = [calls EXCEPT ![c] =
                 broadcastTx([IdleCall EXCEPT !.op = "broadcastTx",
                                              !.args = [tx |-> tx]], tx)]
  /\ UNCHANGED << codesCache, txIndex, options, fees, chainId, signer, chain, chainIdWrites >>

\* a caller invokes client.getTx(id): the query is sent
CallGetTx(c, id) ==
  /\ calls[c].pc = "idle"
  /\ calls' = [calls EXCEPT ![c] =
                 [IdleCall EXCEPT !.op = "getTx", !.pc = "txSearch",
                                  !.args = [id |-> id],
                                  !.query = TxHashQuery(id),
                                  !.asked.txSearch = 1]]
  /\ UNCHANGED << codesCache, txIndex, options, fees, chainId, signer, chain, chainIdWrites >>

\* a block includes the accepted transaction of c and the node indexes it
BlockIncludes(c) ==
  /\ calls[c].op = "broadcastTx" /\ calls[c].pc = "done"
  /\ calls[c].broadcasted # NoResponse /\ calls[c].broadcasted.code = 0
  /\ \A i \in 1..Len(txIndex) : txIndex[i].hash # calls[c].broadcasted.hash
  /\ \E log \in {"[]", undefined} :
       txIndex' = Append(txIndex,
                         [height |-> Len(txIndex) + 1,
                          hash |-> calls[c].broadcasted.hash,
                          tx |-> calls[c].tx,
                          result |-> [code |-> 0, log |-> log,
                                      gasUsed |-> 7, gasWanted |-> 12]])
  /\ UNCHANGED << codesCache, options, fees, chainId, signer, chain, calls, chainIdWrites >>

\* the node answers the search, or rejects the query: getTx returns or throws
TxSearchReturns(c) ==
  /\ calls[c].op = "getTx" /\ calls[c].pc = "txSearch"
  /\ LET results == txSearchAll(calls[c].query)
     IN  calls' = [calls EXCEPT ![c] =
           IF ~results.ok THEN Fail(calls[c], ErrTransport)
           ELSE Succeed(calls[c], getTxResult(txsQuery(results)))]
  /\ UNCHANGED << codesCache, txIndex, options, fees, chainId, signer, chain, chainIdWrites >>

NextLookup ==
  \/ \E c \in Callers, tx \in LookupTxs : CallBroadcastTx(c, tx)
  \/ \E c \in Callers, id \in LookupIds : CallGetTx(c, id)
  \/ \E c \in Callers : BroadcastFails(c)
  \/ \E c \in Callers : BroadcastReturns(c)
  \/ \E c \in Callers : BlockIncludes(c)
  \/ \E c \in Callers : TxSearchReturns(c)
  \/ \E c \in Callers : Return(c)

SpecLookup == Init /\ [][NextLookup]_vars

\* ------------------------------------------------------- transaction search
\* Number.MAX_SAFE_INTEGER, 2^53 - 1, as the largest number of the model
MAX_SAFE_INTEGER == 2147483647

\* filter.minHeight || 0 and filter.maxHeight || Number.MAX_SAFE_INTEGER
OrDefault(option, default) ==
  IF option.given /\ option.value # 0 THEN option.value ELSE default

minHeightOf(filter) == OrDefault(filter.minHeight, 0)
maxHeightOf(filter) == OrDefault(filter.maxHeight, MAX_SAFE_INTEGER)

\* one condition of a query text, `key op value`; a query is the sequence of
\* its conditions, joined by AND
Condition(key, op, value) == [key |-> key, op |-> op, value |-> value]

\* withFilters(originalQuery)
withFilters(originalQuery, minHeight, maxHeight) ==
  originalQuery \o << Condition("tx.height", ">=", minHeight),
                      Condition("tx.height", "<=", maxHeight) >>

\* the node's evaluation of one condition on an indexed transaction
Holds(cond, t) ==
  LET msg == DecodeAny(t.tx.bodyBytes.messages[1])
  IN  CASE cond.key = "tx.height" ->
             (CASE cond.op = "=" -> t.height = cond.value
                [] cond.op = ">=" -> t.height >= cond.value
                [] cond.op = "<=" -> t.height <= cond.value)
        [] cond.key = "message.module" ->
             cond.value = "bank" /\ msg.typeUrl = MsgSendUrl
        [] cond.key = "transfer.sender" ->
             msg.typeUrl = MsgSendUrl /\ msg.value.fromAddress = cond.value
        [] cond.key = "transfer.recipient" ->
             msg.typeUrl = MsgSendUrl /\ msg.value.toAddress = cond.value
        [] cond.key = "message.action" ->
             cond.value = "send" /\ msg.typeUrl = MsgSendUrl
        [] OTHER -> FALSE

\* the node's txSearchAll({ query }) for a query of conditions
txSearchWhere(conditions) ==
  [ok |-> TRUE,
   txs |-> SelectSeq(txIndex,
                     LAMBDA t : \A i \in 1..Len(conditions) : Holds(conditions[i], t))]

\* the queries of the sentFromOrTo branch
sentQuery(address, minHeight, maxHeight) ==
  withFilters(<< Condition("message.module", "=", "bank"),
                 Condition("transfer.sender", "=", address) >>, minHeight, maxHeight)

receivedQuery(address, minHeight, maxHeight) ==
  withFilters(<< Condition("message.module", "=", "bank"),
                 Condition("transfer.recipient", "=", address) >>, minHeight, maxHeight)

\* the query of the tags branch
tagsQuery(tags, minHeight, maxHeight) ==
  withFilters([i \in 1..Len(tags) |-> Condition(tags[i].key, "=", tags[i].value)],
              minHeight, maxHeight)

\* txs.filter((tx) => tx.height >= minHeight && tx.height <= maxHeight)
filtered(txs, minHeight, maxHeight) ==
  SelectSeq(txs, LAMBDA tx : tx.height >= minHeight /\ tx.height <= maxHeight)

\* [...sent, ...received.filter((t) => !sentHashes.includes(t.hash))]
sentAndReceived(sent, received) ==
  sent \o SelectSeq(received,
                    LAMBDA t : \A i \in 1..Len(sent) : sent[i].hash # t.hash)

ErrUnknownQuery == Error(<< "Unknown", "query", "type" >>)

\* searchTx once txs is known
searchTxResult(call, txs) ==
  Succeed(call, filtered(txs, minHeightOf(call.args.filter), maxHeightOf(call.args.filter)))

\* searchTx up to its first await
searchTx(call) ==
  LET minHeight == minHeightOf(call.args.filter)
      maxHeight == maxHeightOf(call.args.filter)
      query == call.args.query
  IN  IF maxHeight < minHeight THEN Succeed(call, << >>)
      ELSE CASE query.kind = "height" ->
                  (IF query.height >= minHeight /\ query.height <= maxHeight
                     THEN [call EXCEPT !.pc = "txSearch",
                                       !.query = << Condition("tx.height", "=", query.height) >>,
                                       !.asked.txSearch = 1]
                   ELSE searchTxResult(call, << >>))
             [] query.kind = "sentFromOrTo" ->
                  [call EXCEPT !.pc = "txSearchBoth", !.asked.txSearch = 2]
             [] query.kind = "tags" ->
                  [call EXCEPT !.pc = "txSearch",
                               !.query = tagsQuery(query.tags, minHeight, maxHeight),
                               !.asked.txSearch = 1]
             [] OTHER -> Fail(call, ErrUnknownQuery)

\* an optional height of the filter the caller gives
Height(n) == [given |-> TRUE, value |-> n]

\* the filters and the queries a caller passes to searchTx
SearchFilters ==
  [minHeight : {NotGiven, Height(1), Height(2)},
   maxHeight : {NotGiven, Height(0), Height(1)}]

SearchQueries ==
  { [kind |-> "height", height |-> 1],
    [kind |-> "height", height |-> 2],
    [kind |-> "sentFromOrTo", sentFromOrTo |-> "a1"],
    [kind |-> "sentFromOrTo", sentFromOrTo |-> "a3"],
    [kind |-> "tags", tags |-> << [key |-> "message.action", value |-> "send"] >>],
    [kind |-> "unknown"] }

\* a caller invokes client.searchTx(query, filter)
CallSearchTx(c, query, filter) ==
  /\ calls[c].pc = "idle"
  /\ calls' = [calls EXCEPT ![c] =
                 searchTx([IdleCall EXCEPT !.op = "searchTx",
                                           !.args = [query |-> query, filter |-> filter]])]
  /\ UNCHANGED << codesCache, txIndex, options, fees, chainId, signer, chain, chainIdWrites >>

\* the node answers the one query of the height or the tags branch
SearchReturns(c) ==
  /\ calls[c].op = "searchTx" /\ calls[c].pc = "txSearch"
  /\ calls' = [calls EXCEPT ![c] =
                 searchTxResult(calls[c], txsQuery(txSearchWhere(calls[c].query)))]
  /\ UNCHANGED << codesCache, txIndex, options, fees, chainId, signer, chain, chainIdWrites >>

\* the node answers one of the two queries of the sentFromOrTo branch; with
\* both answers Promise.all resolves and the results are merged
SearchPartReturns(c, part) ==
  /\ calls[c].op = "searchTx" /\ calls[c].pc = "txSearchBoth"
  /\ ~calls[c].partial[part].answered
  /\ LET address == calls[c].args.query.sentFromOrTo
         minHeight == minHeightOf(calls[c].args.filter)
         maxHeight == maxHeightOf(calls[c].args.filter)
         rawQuery == IF part = "sent" THEN sentQuery(address, minHeight, maxHeight)
                     ELSE receivedQuery(address, minHeight, maxHeight)
         call == [calls[c] EXCEPT
                    !.partial[part] = [answered |-> TRUE,
                                       txs |-> txsQuery(txSearchWhere(rawQuery))]]
     IN  calls' = [calls EXCEPT ![c] =
           IF call.partial.sent.answered /\ call.partial.received.answered
             THEN searchTxResult(call, sentAndReceived(call.partial.sent.txs,
                                                       call.partial.received.txs))
           ELSE call]
  /\ UNCHANGED << codesCache, txIndex, options, fees, chainId, signer, chain, chainIdWrites >>

\* a query of searchTx fails: searchTx throws
SearchFails(c) ==
  /\ calls[c].op = "searchTx" /\ calls[c].pc \in {"txSearch", "txSearchBoth"}
  /\ calls' = [calls EXCEPT ![c] = Fail(calls[c], ErrTransport)]
  /\ UNCHANGED << codesCache, txIndex, options, fees, chainId, signer, chain, chainIdWrites >>

\* the caller that broadcasts and the caller that searches
Broadcasters == {"c1"}
Searchers == {"c2"}

NextSearch ==
  \/ \E c \in Broadcasters, tx \in LookupTxs : CallBroadcastTx(c, tx)
  \/ \E c \in Broadcasters : BroadcastReturns(c)
  \/ \E c \in Broadcasters : BlockIncludes(c)
  \/ \E c \in Searchers, query \in SearchQueries, filter \in SearchFilters :
       CallSearchTx(c, query, filter)
  \/ \E c \in Searchers : SearchReturns(c)
  \/ \E c \in Searchers, part \in {"sent", "received"} : SearchPartReturns(c, part)
  \/ \E c \in Searchers : SearchFails(c)
  \/ \E c \in Callers : Return(c)

SpecSearch == Init /\ [][NextSearch]_vars

\* ------------------------------------------------------------ wasm queries
\* the number of list requests one call may send
MaxPages == 5

\* the number of entries the node puts on one page
PageSize == 2

\* the codes stored on chain, as CodeInfoResponse entries
ChainCodes ==
  << [codeId |-> LongFromNumber(1), creator |-> "a1", dataHash |-> << 18 >>],
     [codeId |-> LongFromNumber(2), creator |-> "a3", dataHash |-> << 171 >>],
     [codeId |-> LongFromNumber(3), creator |-> "a1", dataHash |-> << 205 >>] >>

\* the contracts instantiated from a code
ChainContracts(codeId) ==
  IF codeId = 1 THEN << "contract-a", "contract-b", "contract-c" >>
  ELSE << >>

ErrEntryIncomplete == Error(<< "entry", "incomplete" >>)
ErrCodeInfo == Error(<< "codeInfo", "missing", "or", "incomplete" >>)

\* the page of items a paginated query answers for a start key: the key of
\* the next page holds the position of its first item, the last page has an
\* empty next key
Page(items, startAtKey) ==
  LET first == IF startAtKey.defined /\ Len(startAtKey.bytes) > 0
                 THEN startAtKey.bytes[1] ELSE 1
      last == IF first + PageSize - 1 < Len(items)
                THEN first + PageSize - 1 ELSE Len(items)
  IN  [items |-> SubSeq(items, first, last),
       nextKey |-> IF last < Len(items) THEN << last + 1 >> ELSE << >>]

\* the pagination field of the response: on the last page the node may leave
\* the field out instead of sending an empty next key
Paginations(page) ==
  IF Len(page.nextKey) = 0
    THEN { [present |-> FALSE], [present |-> TRUE, nextKey |-> page.nextKey] }
  ELSE { [present |-> TRUE, nextKey |-> page.nextKey] }

\* pagination?.nextKey
NextKeyOf(pagination) ==
  IF pagination.present THEN Key(pagination.nextKey) ELSE NoKey

\* the response has an empty or absent next key
IsLastPage(pagination) == ~pagination.present \/ Len(pagination.nextKey) = 0

\* getCodes: while (startAtKey?.length !== 0)
getCodesContinues(startAtKey) ==
  ~startAtKey.defined \/ Len(startAtKey.bytes) # 0

\* getContracts: while (startAtKey?.length !== 0 && startAtKey !== undefined)
getContractsContinues(startAtKey) ==
  (~startAtKey.defined \/ Len(startAtKey.bytes) # 0) /\ startAtKey.defined

\* getCodes after the loop: each entry is checked and converted
getCodesResult(call) ==
  IF \E i \in 1..Len(call.collected) : ~Truthy(call.collected[i].creator)
    THEN Fail(call, ErrEntryIncomplete)
  ELSE Succeed(call, [i \in 1..Len(call.collected) |->
                        [id |-> call.collected[i].codeId.value,
                         creator |-> call.collected[i].creator,
                         checksum |-> toHex(call.collected[i].dataHash)]])

\* a caller invokes client.getCodes(): the first page is requested
CallGetCodes(c) ==
  /\ calls[c].pc = "idle"
  /\ calls' = [calls EXCEPT ![c] =
                 [IdleCall EXCEPT !.op = "getCodes", !.pc = "listCodeInfo",
                                  !.asked.listCodeInfo = 1]]
  /\ UNCHANGED << codesCache, txIndex, options, fees, chainId, signer, chain, chainIdWrites >>

\* listCodeInfo answers with a page: the loop of getCodes goes round or ends
ListCodeInfoReturns(c) ==
  /\ calls[c].pc = "listCodeInfo"
  /\ \E pagination \in Paginations(Page(ChainCodes, calls[c].startAtKey)) :
       LET page == Page(ChainCodes, calls[c].startAtKey)
           call == [calls[c] EXCEPT !.collected = @ \o page.items,
                                    !.startAtKey = NextKeyOf(pagination),
                                    !.sawLast = @ \/ IsLastPage(pagination)]
       IN  IF getCodesContinues(call.startAtKey)
             THEN /\ call.asked.listCodeInfo < MaxPages
                  /\ calls' = [calls EXCEPT ![c] =
                                 [call EXCEPT !.asked.listCodeInfo = @ + 1]]
           ELSE calls' = [calls EXCEPT ![c] = getCodesResult(call)]
  /\ UNCHANGED << codesCache, txIndex, options, fees, chainId, signer, chain, chainIdWrites >>

\* a caller invokes client.getContracts(codeId): the first page is requested
CallGetContracts(c, codeId) ==
  /\ calls[c].pc = "idle"
  /\ calls' = [calls EXCEPT ![c] =
                 [IdleCall EXCEPT !.op = "getContracts", !.pc = "listContracts",
                                  !.args = [codeId |-> codeId],
                                  !.asked.listContracts = 1]]
  /\ UNCHANGED << codesCache, txIndex, options, fees, chainId, signer, chain, chainIdWrites >>

\* listContractsByCodeId answers with a page: the loop goes round or ends
ListContractsReturns(c) ==
  /\ calls[c].pc = "listContracts"
  /\ \E pagination \in Paginations(Page(ChainContracts(calls[c].args.codeId),
                                        calls[c].startAtKey)) :
       LET page == Page(ChainContracts(calls[c].args.codeId), calls[c].startAtKey)
           call == [calls[c] EXCEPT !.collected = @ \o page.items,
                                    !.startAtKey = NextKeyOf(pagination),
                                    !.sawLast = @ \/ IsLastPage(pagination)]
       IN  IF getContractsContinues(call.startAtKey)
             THEN /\ call.asked.listContracts < MaxPages
                  /\ calls' = [calls EXCEPT ![c] =
                                 [call EXCEPT !.asked.listContracts = @ + 1]]
           ELSE calls' = [calls EXCEPT ![c] = Succeed(call, call.collected)]
  /\ UNCHANGED << codesCache, txIndex, options, fees, chainId, signer, chain, chainIdWrites >>

\* the details of a code stored on chain, as getCodeDetails builds them
CodeDetailsOf(codeInfo, data) ==
  [id |-> codeInfo.codeId.value,
   creator |-> codeInfo.creator,
   checksum |-> toHex(codeInfo.dataHash),
   data |-> data]

\* the wasm byte code of a stored code
CodeData(codeId) == << "wasm", codeId >>

\* what wasm.getCode(codeId) may answer: an error, a response without code
\* info, a response with an empty creator, or the stored code
GetCodeAnswers(codeId) ==
  IF \E i \in 1..Len(ChainCodes) : ChainCodes[i].codeId.value = codeId
    THEN LET info == ChainCodes[CHOOSE i \in 1..Len(ChainCodes) :
                                  ChainCodes[i].codeId.value = codeId]
         IN  { [throws |-> TRUE, hasInfo |-> FALSE],
               [throws |-> FALSE, hasInfo |-> FALSE],
               [throws |-> FALSE, hasInfo |-> TRUE,
                codeInfo |-> [info EXCEPT !.creator = ""], data |-> CodeData(codeId)],
               [throws |-> FALSE, hasInfo |-> TRUE,
                codeInfo |-> info, data |-> CodeData(codeId)] }
  ELSE { [throws |-> TRUE, hasInfo |-> FALSE] }

\* the assert of getCodeDetails passes
CodeInfoComplete(answer) ==
  ~answer.throws /\ answer.hasInfo /\ Truthy(answer.codeInfo.creator)

\* a cache that takes whatever code info the node sent, before the assert
cacheAfterGetCode_beforeAssert(cache, codeId, answer) ==
  IF ~answer.throws /\ answer.hasInfo
    THEN [cache EXCEPT ![codeId] = CodeDetailsOf(answer.codeInfo, answer.data)]
  ELSE cache

\* this.codesCache.set(codeId, codeDetails), reached only past the assert
cacheAfterGetCode(cache, codeId, answer) ==
  IF CodeInfoComplete(answer)
    THEN [cache EXCEPT ![codeId] = CodeDetailsOf(answer.codeInfo, answer.data)]
  ELSE cache

\* a caller invokes client.getCodeDetails(codeId): a cached entry is returned
\* at once, else the node is asked
CallGetCodeDetails(c, codeId) ==
  /\ calls[c].pc = "idle"
  /\ LET call == [IdleCall EXCEPT !.op = "getCodeDetails",
                                  !.args = [codeId |-> codeId],
                                  !.cached = codesCache[codeId]]
     IN  calls' = [calls EXCEPT ![c] =
           IF call.cached # Null THEN Succeed(call, call.cached)
           ELSE [call EXCEPT !.pc = "getCode", !.asked.getCode = 1]]
  /\ UNCHANGED << codesCache, txIndex, options, fees, chainId, signer, chain, chainIdWrites >>

\* wasm.getCode answers: getCodeDetails asserts, stores and returns
GetCodeReturns(c) ==
  /\ calls[c].pc = "getCode"
  /\ \E answer \in GetCodeAnswers(calls[c].args.codeId) :
       /\ codesCache' = cacheAfterGetCode(codesCache, calls[c].args.codeId, answer)
       /\ calls' = [calls EXCEPT ![c] =
            IF answer.throws THEN Fail(calls[c], ErrTransport)
            ELSE IF ~CodeInfoComplete(answer) THEN Fail(calls[c], ErrCodeInfo)
            ELSE Succeed(calls[c], CodeDetailsOf(answer.codeInfo, answer.data))]
  /\ UNCHANGED << txIndex, options, fees, chainId, signer, chain, chainIdWrites >>

\* a list query fails: getCodes or getContracts throws
ListQueryFails(c) ==
  /\ calls[c].pc \in {"listCodeInfo", "listContracts"}
  /\ calls' = [calls EXCEPT ![c] = Fail(calls[c], ErrTransport)]
  /\ UNCHANGED << codesCache, txIndex, options, fees, chainId, signer, chain, chainIdWrites >>

NextWasm ==
  \/ \E c \in Callers : CallGetCodes(c)
  \/ \E c \in Callers : ListCodeInfoReturns(c)
  \/ \E c \in Callers, codeId \in CodeIds : CallGetContracts(c, codeId)
  \/ \E c \in Callers : ListContractsReturns(c)
  \/ \E c \in Callers : ListQueryFails(c)
  \/ \E c \in Callers, codeId \in CodeIds : CallGetCodeDetails(c, codeId)
  \/ \E c \in Callers : GetCodeReturns(c)
  \/ \E c \in Callers : Return(c)

SpecWasm == Init /\ [][NextWasm]_vars

\* ------------------------------------------- construction of the fee table
\* the gas prices a caller passes as options.gasPrice
GasPriceOptions == {NotGiven, GasPrice(25, 1000, "boot"), GasPrice(3, 2, "nick")}

\* the objects a caller passes as options.gasLimits: any kinds, overridden
\* by a limit below or above the default
GasLimitOptions ==
  {NotGiven} \cup
  { [given |-> TRUE, limits |-> f] :
      f \in [OperationKinds -> {NotGiven, Limit(1), Limit(200001)}] }

\* connectWithSigner has been called with some options; the table is not built yet
InitFees ==
  /\ chainId = undefined
  /\ signer = [signDirect |-> TRUE, signAmino |-> FALSE]
  /\ chain = InitialChain
  /\ calls = [c \in Callers |-> IdleCall]
  /\ chainIdWrites = 0
  /\ options \in [gasPrice : GasPriceOptions, gasLimits : GasLimitOptions]
  /\ fees = << >>
  /\ txIndex = << >>
  /\ codesCache = [id \in CodeIds |-> Null]

\* the constructor of SigningCyberClient assigns this.fees
Construct ==
  /\ fees = << >>
  /\ fees' = constructorFees(options)
  /\ UNCHANGED << codesCache, txIndex, options, chainId, signer, chain, calls, chainIdWrites >>

NextFees == Construct

SpecFees == InitFees /\ [][NextFees]_vars

\* ------------------------------------------------------------- properties
Signing(c) == calls[c].op = "signAndBroadcast"

SignerAddresses == { SignerAccounts[i].address : i \in 1..Len(SignerAccounts) }

\* the raw public key the signer holds for an address
RawKeyOf(address) ==
  SignerAccounts[CHOOSE i \in 1..Len(SignerAccounts) :
                   SignerAccounts[i].address = address].pubkey

\* /^-?[0-9]+$/
IsIntegerLiteral(str) ==
  /\ Len(str) > 0
  /\ \A i \in 1..Len(str) : str[i] \in Digits \/ (i = 1 /\ str[i] = "-")
  /\ str # << "-" >>

\* C1: in direct mode the envelope handed to broadcast carries the bodyBytes and
\* authInfoBytes that signDirect returned, also when they differ from the
\* bytes the client built.
C1_DirectEnvelopeCarriesSignerBytes ==
  \A c \in Callers :
    (Signing(c) /\ calls[c].asked.signDirect > 0 /\ calls[c].asked.broadcast > 0) =>
      /\ calls[c].tx.bodyBytes = calls[c].signed.bodyBytes
      /\ calls[c].tx.authInfoBytes = calls[c].signed.authInfoBytes

\* a direct call is broadcasting bytes of the signer that differ from its own
C1_Witness ==
  \E c \in Callers :
    /\ Signing(c) /\ calls[c].pc = "broadcast" /\ calls[c].asked.signDirect > 0
    /\ calls[c].signed.bodyBytes # calls[c].signDoc.bodyBytes
    /\ calls[c].tx.bodyBytes = calls[c].signed.bodyBytes

\* C2: in direct mode the document shown to signDirect is built from the
\* caller's messages and memo, the signer account's public key, the caller's
\* fee amount, the gas parsed from fee.gas, the sequence and account number
\* the account query of this call answered, and the client's chain id.
C2_DirectSignDocBindsInputs ==
  \A c \in Callers :
    (Signing(c) /\ calls[c].asked.signDirect > 0) =>
      LET args == calls[c].args
          fetched == calls[c].answer.account
      IN  calls[c].signDoc =
            [kind |-> "direct",
             bodyBytes |-> [proto |-> "TxBody",
                            messages |-> [i \in 1..Len(args.messages) |->
                                            EncodeAsAny(args.messages[i])],
                            memo |-> args.memo],
             authInfoBytes |->
               [proto |-> "AuthInfo",
                signerInfos |-> << [publicKey |-> encodePubkey(RawKeyOf(args.signerAddress)),
                                    mode |-> SIGN_MODE_DIRECT,
                                    sequence |-> [wire |-> "uint64",
                                                  value |-> fetched.sequence]] >>,
                feeAmount |-> args.fee.amount,
                gasLimit |-> IF args.fee.gas[1] = "-"
                               THEN [wire |-> "uint64-wrapped",
                                     value |-> ParseDigits(Tail(args.fee.gas))]
                             ELSE [wire |-> "uint64", value |-> ParseDigits(args.fee.gas)]],
             chainId |-> chainId,
             accountNumber |-> [wire |-> "uint64", value |-> fetched.accountNumber]]

\* a direct signer is being shown a document with a non-empty memo and a
\* sequence that has moved on chain since the client was created
C2_Witness ==
  \E c \in Callers :
    /\ Signing(c) /\ calls[c].pc = "signDirect"
    /\ calls[c].args.memo = "hello"
    /\ calls[c].answer.account.sequence > 0
    /\ calls[c].signDoc.chainId = NodeNetwork

\* C3: in Amino mode the messages, memo, fee amount, gas and sequence of the
\* envelope are those of the signed document the signer returned, the auth
\* info is tagged legacy Amino JSON, and the auth info the direct branch
\* builds never has that tag.
C3_AminoEnvelopeFromSignedDoc ==
  \A c \in Callers :
    /\ (Signing(c) /\ calls[c].asked.signAmino > 0 /\ calls[c].asked.broadcast > 0) =>
         LET signed == calls[c].signed
             tx == calls[c].tx
         IN  /\ tx.bodyBytes.memo = signed.memo
             /\ tx.bodyBytes.messages =
                  [i \in 1..Len(signed.msgs) |-> EncodeAsAny(fromAmino(signed.msgs[i]).msg)]
             /\ tx.authInfoBytes.feeAmount = signed.fee.amount
             /\ tx.authInfoBytes.gasLimit = LongFromNumber(Int53FromString(signed.fee.gas).value)
             /\ tx.authInfoBytes.signerInfos[1].sequence =
                  LongFromNumber(Int53FromString(signed.sequence).value)
             /\ tx.authInfoBytes.signerInfos[1].mode = SIGN_MODE_LEGACY_AMINO_JSON
    /\ (Signing(c) /\ calls[c].asked.signDirect > 0) =>
         calls[c].signDoc.authInfoBytes.signerInfos[1].mode # SIGN_MODE_LEGACY_AMINO_JSON

\* an Amino call is broadcasting a document in which the signer changed
\* messages, memo, fee and sequence
C3_Witness ==
  \E c \in Callers :
    /\ Signing(c) /\ calls[c].pc = "broadcast" /\ calls[c].asked.signAmino > 0
    /\ calls[c].signed.memo # calls[c].signDoc.memo
    /\ calls[c].signed.fee # calls[c].signDoc.fee
    /\ calls[c].signed.sequence # calls[c].signDoc.sequence
    /\ calls[c].signed.msgs # calls[c].signDoc.msgs

\* C4: a call asks signDirect exactly when the signer has signDirect, asks
\* signAmino exactly when it has not, and never asks both.
C4_ExactlyOneSigningBranch ==
  \A c \in Callers :
    /\ calls[c].asked.signDirect + calls[c].asked.signAmino <= 1
    /\ calls[c].asked.signDirect > 0 => signer.signDirect
    /\ calls[c].asked.signAmino > 0 => ~signer.signDirect
    /\ calls[c].pc \in {"signDirect", "signAmino", "broadcast"} =>
         /\ signer.signDirect => calls[c].asked.signDirect = 1
         /\ ~signer.signDirect => calls[c].asked.signAmino = 1

\* a signer with both methods has been asked for a direct signature
C4_Witness ==
  \E c \in Callers :
    /\ signer.signDirect /\ signer.signAmino
    /\ calls[c].pc = "broadcast" /\ calls[c].asked.signDirect = 1

\* the messages the Amino converter of the client knows
AminoConvertible(messages) ==
  \A i \in 1..Len(messages) : messages[i].typeUrl = MsgSendUrl

\* C5: a call broadcasts only after every earlier step succeeded and with an
\* envelope of signed body, signed auth info and one signature; a call that
\* ended without broadcasting ended with an error.
C5_NoBroadcastAfterFailure ==
  \A c \in Callers :
    Signing(c) =>
      /\ calls[c].asked.broadcast > 0 =>
           /\ calls[c].args.signerAddress \in SignerAddresses
           /\ ~calls[c].answer.throws /\ calls[c].answer.account.present
           /\ calls[c].answer.account.typeUrl = BaseAccountUrl
           /\ Truthy(calls[c].chainId)
           /\ \A i \in 1..Len(calls[c].args.messages) :
                calls[c].args.messages[i].typeUrl \in RegisteredTypeUrls
           /\ IsIntegerLiteral(calls[c].args.fee.gas)
           /\ calls[c].asked.signAmino > 0 =>
                /\ AminoConvertible(calls[c].args.messages)
                /\ IsIntegerLiteral(calls[c].signed.fee.gas)
                /\ IsIntegerLiteral(calls[c].signed.sequence)
           /\ calls[c].asked.signDirect + calls[c].asked.signAmino = 1
           /\ calls[c].signed # NoDoc
           /\ calls[c].tx.proto = "TxRaw"
           /\ calls[c].tx.bodyBytes.proto = "TxBody"
           /\ calls[c].tx.authInfoBytes.proto = "AuthInfo"
           /\ calls[c].tx.signatures = << << "raw", calls[c].signed >> >>
      /\ (calls[c].pc = "done" /\ calls[c].asked.broadcast = 0) =>
           calls[c].result.status = "err"

\* a call has ended in an error after the signer was asked, without a broadcast
C5_Witness ==
  \E c \in Callers :
    /\ Signing(c) /\ calls[c].pc = "done"
    /\ calls[c].asked.signDirect + calls[c].asked.signAmino = 1
    /\ calls[c].asked.broadcast = 0
    /\ calls[c].result.status = "err"

\* C6: when getAccounts returned and the address is not among the accounts,
\* the call fails with the signer-account error and has sent no account
\* query, no status request, no sign request and no broadcast.
C6_SignerAccountMismatch ==
  \A c \in Callers :
    (Signing(c) /\ calls[c].gotAccounts
       /\ calls[c].args.signerAddress \notin SignerAddresses) =>
      /\ calls[c].pc = "done"
      /\ calls[c].result = [status |-> "err", value |-> ErrSignerAccount]
      /\ calls[c].asked.account = 0 /\ calls[c].asked.status = 0
      /\ calls[c].asked.signDirect = 0 /\ calls[c].asked.signAmino = 0
      /\ calls[c].asked.broadcast = 0

\* a call for an address the signer does not hold has ended
C6_Witness ==
  \E c \in Callers :
    /\ Signing(c) /\ calls[c].gotAccounts /\ calls[c].pc = "done"
    /\ calls[c].args.signerAddress = "a3"

\* the query layer reported that the address has no account
ReportedAbsent(c) ==
  /\ calls[c].asked.account > 0 /\ calls[c].pc # "account"
  /\ \/ ~calls[c].answer.throws /\ ~calls[c].answer.account.present
     \/ calls[c].answer.throws /\ calls[c].answer.error = ErrRpcNotFound

\* C7: when the query layer reports absence, by an empty answer or by a
\* NotFound error, getAccount returns null and signAndBroadcast fails with
\* the account-not-found error without a sign request or a broadcast.
C7_AbsentAccountIsNull ==
  \A c \in Callers :
    ReportedAbsent(c) =>
      /\ calls[c].pc = "done"
      /\ calls[c].op = "getAccount" =>
           calls[c].result = [status |-> "ok", value |-> Null]
      /\ calls[c].op = "signAndBroadcast" =>
           /\ calls[c].result = [status |-> "err", value |-> ErrAccountNotFound]
           /\ calls[c].asked.signDirect = 0 /\ calls[c].asked.signAmino = 0
           /\ calls[c].asked.broadcast = 0

\* absence was reported by a NotFound error and by an empty answer, to
\* getAccount and to signAndBroadcast
C7_Witness ==
  /\ calls["c1"].op = "getAccount" /\ calls["c1"].pc = "done"
  /\ calls["c1"].answer.throws /\ calls["c1"].answer.error = ErrRpcNotFound
  /\ calls["c2"].op = "signAndBroadcast" /\ calls["c2"].pc = "done"
  /\ calls["c2"].asked.account = 1
  /\ ~calls["c2"].answer.throws /\ ~calls["c2"].answer.account.present

\* the query layer raised an error that is no NotFound error
QueryFailed(c) ==
  /\ calls[c].asked.account > 0 /\ calls[c].pc # "account"
  /\ calls[c].answer.throws
  /\ calls[c].answer.error \in {ErrRpcUnavailable, ErrTransport}

\* C8: an account-query error other than NotFound ends getAccount, getSequence
\* and signAndBroadcast with that same error after one query, with nothing
\* else requested afterwards.
C8_QueryErrorPropagates ==
  \A c \in Callers :
    QueryFailed(c) =>
      /\ calls[c].op \in {"getAccount", "getSequence", "signAndBroadcast"}
      /\ calls[c].pc = "done"
      /\ calls[c].result = [status |-> "err", value |-> calls[c].answer.error]
      /\ calls[c].asked.account = 1
      /\ calls[c].asked.status = 0 /\ calls[c].asked.broadcast = 0

\* getSequence and signAndBroadcast have both ended in a query error
C8_Witness ==
  /\ calls["c1"].op = "getSequence" /\ QueryFailed("c1")
  /\ calls["c1"].answer.error = ErrRpcUnavailable
  /\ calls["c2"].op = "signAndBroadcast" /\ QueryFailed("c2")

\* C9: every signAndBroadcast call past the signer lookup has sent its own
\* account query, and the sequence and account number it shows to the signer
\* are those this query answered.
C9_AccountStateFetchedPerCall ==
  \A c \in Callers :
    Signing(c) =>
      /\ (calls[c].gotAccounts /\ calls[c].args.signerAddress \in SignerAddresses) =>
           calls[c].asked.account = 1
      /\ calls[c].asked.signDirect > 0 =>
           /\ calls[c].signDoc.authInfoBytes.signerInfos[1].sequence =
                [wire |-> "uint64", value |-> calls[c].answer.account.sequence]
           /\ calls[c].signDoc.accountNumber =
                [wire |-> "uint64", value |-> calls[c].answer.account.accountNumber]
      /\ calls[c].asked.signAmino > 0 =>
           /\ ParseDigits(calls[c].signDoc.sequence) = calls[c].answer.account.sequence
           /\ ParseDigits(calls[c].signDoc.account_number) =
                calls[c].answer.account.accountNumber

\* two calls in flight show the signer different sequences, each its own
C9_Witness ==
  /\ Signing("c1") /\ Signing("c2")
  /\ calls["c1"].asked.signDirect + calls["c1"].asked.signAmino = 1
  /\ calls["c2"].asked.signDirect + calls["c2"].asked.signAmino = 1
  /\ calls["c1"].answer.account.sequence # calls["c2"].answer.account.sequence

\* C10: the chain-id cache is assigned at most once, and a call that finds a
\* value in the cache returns that value without a status request.
C10_ChainIdWriteOnce ==
  /\ chainIdWrites <= 1
  /\ \A c \in Callers :
       calls[c].cacheSeen # undefined =>
         /\ calls[c].asked.status = 0
         /\ calls[c].chainId = calls[c].cacheSeen

\* the node has answered the broadcast of this signAndBroadcast call
Answered(c) == Signing(c) /\ calls[c].broadcasted # NoResponse

\* C11: when the node answers a broadcast with a non-zero code, signAndBroadcast
\* (through broadcastTx) returns a result that carries that code and the
\* node's log; it does not throw.
C11_RejectionIsAResult ==
  \A c \in Callers :
    (Answered(c) /\ calls[c].broadcasted.code # 0) =>
      /\ calls[c].pc = "done"
      /\ calls[c].result.status = "ok"
      /\ calls[c].result.value.code = calls[c].broadcasted.code
      /\ calls[c].result.value.rawLog = calls[c].broadcasted.log

\* a call signed with a sequence that was stale when the node checked it has
\* returned the node's code 32
C11_Witness ==
  \E c \in Callers :
    /\ Answered(c) /\ calls[c].pc = "done"
    /\ calls[c].broadcasted.code = 32
    /\ calls[c].answer.account.sequence < chain["a1"].sequence
    /\ calls[c].result.status = "ok"

\* the gas price and the gas limit the fee of a kind has to be computed from
PriceOf(opts) == IF opts.gasPrice.given THEN opts.gasPrice ELSE GasPrice(1, 1000, "nick")

Overridden(opts, kind) == opts.gasLimits.given /\ opts.gasLimits.limits[kind].given

GasOf(opts, kind) ==
  IF Overridden(opts, kind) THEN opts.gasLimits.limits[kind].value
  ELSE CASE kind = "cyberlink" -> 256000
         [] kind \in {"convert", "send"} -> 128000
         [] OTHER -> 100000

HelperAnswered(c) == calls[c].helper # "none" /\ calls[c].broadcasted # NoResponse

\* the upper-case hexadecimal digits
UpperHexDigits == Digits \cup {"A", "B", "C", "D", "E", "F"}

\* C12: for each per-operation helper, a broadcast answered with code 0
\* yields a result with the upper-case hexadecimal transaction id and no
\* error, and a broadcast answered with a non-zero code yields a structured
\* result carrying the code and the log text, not an exception.
C12_HelperReturnsRejection ==
  \A c \in Callers :
    HelperAnswered(c) =>
      LET node == calls[c].broadcasted
          id == toUpperCase(toHex(node.hash))
      IN  /\ calls[c].pc = "done"
          /\ calls[c].result.status = "ok"
          /\ calls[c].result.value.transactionHash = id
          /\ \A i \in 1..Len(id) : id[i] \in UpperHexDigits
          /\ node.code # 0 =>
               /\ {"code", "rawLog"} \subseteq DOMAIN calls[c].result.value
               /\ calls[c].result.value.code = node.code
               /\ calls[c].result.value.rawLog = node.log

\* the envelope of c carries the sequence that c fetched
SignedWithFetched(c) ==
  calls[c].tx.authInfoBytes.signerInfos[1].sequence
    = LongFromNumber(calls[c].account.sequence)

\* two calls in flight together for one address that fetched one sequence,
\* signed with it and were both answered by the node
Raced(c, d) ==
  /\ c # d /\ Answered(c) /\ Answered(d)
  /\ calls[c].result.status = "ok" /\ calls[d].result.status = "ok"
  /\ calls[c].args.signerAddress = calls[d].args.signerAddress
  /\ calls[c].account.sequence = calls[d].account.sequence
  /\ SignedWithFetched(c) /\ SignedWithFetched(d)

\* C13: the client does not serialise two concurrent signAndBroadcast calls
\* for one address: when both fetched the same sequence, signed with it and
\* broadcast, the chain accepted at most one of them and the result of the
\* other reports the chain's rejection (the witness is that interleaving, with
\* the rejection for the stale sequence).
C13_RaceRejectsOne ==
  \A c, d \in Callers :
    (Raced(c, d) /\ calls[c].result.value.code = 0) =>
      /\ calls[d].result.value.code # 0
      /\ calls[d].result.value.code = calls[d].broadcasted.code

\* both calls fetched sequence 0 and broadcast; the first was accepted and the
\* second rejected
C13_Witness ==
  /\ Raced("c1", "c2")
  /\ calls["c1"].account.sequence = 0 /\ calls["c1"].asked.broadcast = 1
  /\ calls["c2"].asked.broadcast = 1
  /\ calls["c1"].result.value.code = 0
  /\ calls["c2"].result.value.code = 32

\* the requests one call has sent, by kind
SignAsked(c) == calls[c].asked.signDirect + calls[c].asked.signAmino

\* the chain-id resolution of c has started: the cache was read
ChainIdStarted(c) == calls[c].asked.status > 0 \/ calls[c].cacheSeen # undefined

\* the number of the interaction c is waiting in, 0 when it waits in none
Waiting(c) ==
  CASE calls[c].pc = "getAccounts" -> 1
    [] calls[c].pc = "account" -> 2
    [] calls[c].pc = "status" -> 3
    [] calls[c].pc \in {"signDirect", "signAmino"} -> 4
    [] calls[c].pc = "broadcast" -> 5
    [] OTHER -> 0

\* how many of the five interactions c has started
Started(c) ==
  calls[c].asked.getAccounts + calls[c].asked.account
    + (IF ChainIdStarted(c) THEN 1 ELSE 0) + SignAsked(c) + calls[c].asked.broadcast

\* C14: within one signAndBroadcast call the external interactions happen in
\* the order signer getAccounts, account query, chain-id resolution, sign
\* request, broadcast, each at most once and each only after the previous one
\* returned; the sign request has the account and the chain id, the broadcast
\* has the signature.
C14_StrictOrder ==
  \A c \in Callers :
    Signing(c) =>
      /\ calls[c].asked.getAccounts = 1
      /\ calls[c].asked.account > 0 => calls[c].gotAccounts
      /\ ChainIdStarted(c) =>
           /\ calls[c].asked.account = 1
           /\ calls[c].answer # NoAnswer /\ calls[c].account # Null
      /\ SignAsked(c) > 0 =>
           /\ ChainIdStarted(c) /\ calls[c].pc # "status"
           /\ calls[c].account # Null
           /\ Truthy(calls[c].chainId)
           /\ calls[c].signDoc # NoDoc
      /\ calls[c].asked.broadcast > 0 =>
           /\ SignAsked(c) = 1
           /\ calls[c].signed # NoDoc /\ calls[c].tx # NoTx
           /\ Len(calls[c].tx.signatures) > 0
      /\ \A k \in DOMAIN calls[c].asked : calls[c].asked[k] <= 1
      /\ Waiting(c) # 0 => Started(c) = Waiting(c)

\* a call waits for the node's answer to its broadcast after the four earlier
\* interactions, the chain id having come from a status request
C14_Witness ==
  \E c \in Callers :
    /\ Signing(c) /\ calls[c].pc = "broadcast"
    /\ calls[c].asked.status = 1 /\ calls[c].asked.signDirect = 1
    /\ Started(c) = 5

\* C15: signAndBroadcast never retries: in one call the signer is asked to
\* sign at most once and broadcast is invoked at most once, whatever the
\* collaborators answered, and the envelope handed to broadcast holds exactly
\* one signature.
C15_NoRetry ==
  \A c \in Callers :
    Signing(c) =>
      /\ calls[c].asked.signDirect + calls[c].asked.signAmino <= 1
      /\ calls[c].asked.broadcast <= 1
      /\ calls[c].asked.broadcast = 1 <=> calls[c].tx # NoTx
      /\ calls[c].tx # NoTx => Len(calls[c].tx.signatures) = 1

\* a call has ended in an error after the signer rejected a request, and one
\* after the broadcast failed, each having asked once
C15_Witness ==
  /\ Signing("c1") /\ calls["c1"].pc = "done"
  /\ calls["c1"].result = [status |-> "err", value |-> ErrSignerRejected]
  /\ calls["c1"].asked.signDirect = 1 /\ calls["c1"].asked.broadcast = 0
  /\ Signing("c2") /\ calls["c2"].pc = "done"
  /\ calls["c2"].result = [status |-> "err", value |-> ErrTransport]
  /\ calls["c2"].asked.signDirect = 1 /\ calls["c2"].asked.broadcast = 1
  /\ Len(calls["c2"].tx.signatures) = 1

\* a non-negative integer literal: digits only
IsNonNegativeLiteral(str) == AllDigits(str)

\* C16: signAndBroadcast fails with the invalid-fee error, before any sign
\* request, whenever the gas string of the fee is not a non-negative integer
\* literal, "-1" included; in Amino mode the same holds for the gas string of
\* the fee the signer returned, before the broadcast.
C16_NegativeGasRejected ==
  \A c \in Callers :
    Signing(c) =>
      /\ (calls[c].asked.signDirect + calls[c].asked.signAmino > 0) =>
           IsNonNegativeLiteral(calls[c].args.fee.gas)
      /\ (calls[c].asked.broadcast > 0 /\ calls[c].signed.kind = "amino") =>
           IsNonNegativeLiteral(calls[c].signed.fee.gas)
      /\ (Truthy(calls[c].chainId) /\ ~IsNonNegativeLiteral(calls[c].args.fee.gas)
            /\ calls[c].args.messages[1].typeUrl \in RegisteredTypeUrls) =>
           calls[c].result = [status |-> "err", value |-> ErrInvalidString]

\* the text is the upper-case hexadecimal rendering of the bytes
IsUpperHexOf(str, bytes) ==
  /\ Len(str) = 2 * Len(bytes)
  /\ \A i \in 1..Len(str) : str[i] \in UpperHexDigits
  /\ fromHex(str) = bytes

\* C18: broadcastTx returns the node's code, log, gasUsed and gasWanted
\* unchanged with a transaction id that is the upper-case hexadecimal rendering
\* of the hash the node returned; getTx sends the id as given in the query
\* tx.hash='<id>', and what it finds for such an id is the indexed transaction
\* with that hash, reported under that same id.
C18_TransactionIdIsLookupKey ==
  \A c \in Callers :
    /\ (calls[c].op = "broadcastTx" /\ calls[c].broadcasted # NoResponse) =>
         /\ calls[c].result.status = "ok"
         /\ calls[c].result.value.code = calls[c].broadcasted.code
         /\ calls[c].result.value.rawLog = calls[c].broadcasted.log
         /\ calls[c].result.value.gasUsed = calls[c].broadcasted.gasUsed
         /\ calls[c].result.value.gasWanted = calls[c].broadcasted.gasWanted
         /\ IsUpperHexOf(calls[c].result.value.transactionHash, calls[c].broadcasted.hash)
         /\ \A d \in Callers :
              (calls[d].op = "getTx" /\ calls[d].result.status = "ok"
                 /\ calls[d].args.id = calls[c].result.value.transactionHash
                 /\ calls[d].result.value # Null) =>
                /\ calls[d].result.value.tx = calls[c].tx
                /\ calls[d].result.value.hash = calls[c].result.value.transactionHash
    /\ calls[c].op = "getTx" =>
         /\ calls[c].query = << "tx.hash='" >> \o calls[c].args.id \o << "'" >>
         /\ (calls[c].result.status = "ok" /\ calls[c].result.value # Null) =>
              /\ \E i \in 1..Len(txIndex) :
                   /\ txIndex[i].hash = fromHex(calls[c].args.id)
                   /\ txIndex[i].tx = calls[c].result.value.tx
                   /\ IsUpperHexOf(calls[c].result.value.hash, txIndex[i].hash)

\* one caller holds the result of an accepted broadcast, the other has looked
\* that transaction up by the id of that result and found it
C18_Witness ==
  /\ calls["c1"].op = "broadcastTx" /\ calls["c1"].result.status = "ok"
  /\ calls["c1"].result.value.code = 0
  /\ calls["c2"].op = "getTx" /\ calls["c2"].result.status = "ok"
  /\ calls["c2"].args.id = calls["c1"].result.value.transactionHash
  /\ calls["c2"].result.value # Null
  /\ calls["c2"].result.value.hash = calls["c2"].args.id

\* every message of the call is of a type the default registry holds
AllRegistered(c) ==
  \A i \in 1..Len(calls[c].args.messages) :
    calls[c].args.messages[i].typeUrl \in RegisteredTypeUrls

\* C19: for every message type of the default registry (MsgSend, MsgCyberlink,
\* MsgConvert and the four energy-route messages) the default Amino converter
\* gives fromAmino(toAmino(x)) = x, so a call with such messages and an
\* Amino-only signer gets as far as the sign request, with a document whose
\* messages convert back to the ones given.
C19_RegisteredTypesPassAmino ==
  \A c \in Callers :
    (Signing(c) /\ ~isOfflineDirectSigner(signer) /\ Truthy(calls[c].chainId)
       /\ AllRegistered(c) /\ IsNonNegativeLiteral(calls[c].args.fee.gas)) =>
      /\ \A i \in 1..Len(calls[c].args.messages) :
           /\ toAmino(calls[c].args.messages[i]).ok
           /\ fromAmino(toAmino(calls[c].args.messages[i]).msg).msg
                = calls[c].args.messages[i]
      /\ calls[c].asked.signAmino = 1
      /\ calls[c].result # [status |-> "err", value |-> ErrAminoTypeUrl]

\* c has shown a sign document to the signer
ShownToSigner(c) ==
  Signing(c) /\ calls[c].asked.signDirect + calls[c].asked.signAmino = 1

\* the two runs were given the same inputs
SameSignInputs(c, d) ==
  /\ calls[c].args = calls[d].args
  /\ calls[c].account.accountNumber = calls[d].account.accountNumber
  /\ calls[c].account.sequence = calls[d].account.sequence
  /\ calls[c].chainId = calls[d].chainId
  /\ calls[c].pubkey = calls[d].pubkey

SignDocChainId(c) ==
  IF calls[c].signDoc.kind = "direct" THEN calls[c].signDoc.chainId
  ELSE calls[c].signDoc.chain_id

\* C22: when the node reports an empty network name, getChainId throws and
\* leaves the chain-id cache unset, so that a call that then resolves the
\* chain id queries the node again; the cache never holds the empty name and
\* no signAndBroadcast call signs with an empty chain id.
C22_EmptyNetworkNotCached ==
  /\ chainId # ""
  /\ chainIdWrites = 0 <=> chainId = undefined
  /\ \A c \in Callers :
       /\ (calls[c].result.status = "err" /\ calls[c].result.value = ErrChainIdEmpty) =>
            /\ calls[c].asked.status = 1
            /\ ~Truthy(calls[c].chainId)
            /\ SignAsked(c) = 0 /\ calls[c].asked.broadcast = 0
       /\ (ChainIdStarted(c) /\ calls[c].asked.status = 0) =>
            /\ Truthy(calls[c].cacheSeen)
            /\ chainIdWrites > 0
       /\ SignAsked(c) > 0 =>
            /\ Truthy(SignDocChainId(c))
            /\ SignDocChainId(c) = calls[c].chainId

\* one call has failed on the empty network name, the cache is still unset and
\* a signAndBroadcast call that came after the account answer asks the node
C22_Witness ==
  /\ calls["c1"].op = "getChainId"
  /\ calls["c1"].result.status = "err"
  /\ calls["c1"].result.value = ErrChainIdEmpty
  /\ chainId = undefined /\ chainIdWrites = 0
  /\ Signing("c2") /\ calls["c2"].pc = "status" /\ calls["c2"].asked.status = 1

\* C23: the MsgConvert built by convertResources carries the caller's
\* arguments: agent = senderAddress, amount, resource, and an end time equal
\* to the time the caller gave.
C23_ConvertCarriesTime ==
  \A c \in Callers :
    calls[c].helper = "convertResources" =>
      LET msg == calls[c].args.messages[1]
      IN  /\ Len(calls[c].args.messages) = 1
          /\ msg.typeUrl = MsgConvertUrl
          /\ msg.value.agent = calls[c].given.senderAddress
          /\ msg.value.amount = calls[c].given.amount
          /\ msg.value.resource = calls[c].given.resource
          /\ msg.value.endTime = calls[c].given.time

\* C21: getCodes terminates: as soon as the node returns a page with an empty
\* or absent next key, the paging loop stops, no further page is requested and
\* the codes collected so far are returned, as getContracts does for the same
\* responses.
C21_PagingStopsAtLastPage ==
  \A c \in Callers :
    (calls[c].op \in {"getCodes", "getContracts"} /\ calls[c].sawLast) =>
      /\ calls[c].pc = "done"
      /\ calls[c].result.status = "ok"
      /\ Len(calls[c].result.value) = Len(calls[c].collected)
      /\ calls[c].asked.listCodeInfo + calls[c].asked.listContracts
           = (Len(calls[c].collected) + PageSize - 1) \div PageSize
             + (IF Len(calls[c].collected) = 0 THEN 1 ELSE 0)

\* the call of c is a getCodeDetails call
FetchingDetails(c) == calls[c].op = "getCodeDetails"

\* what the cache and the finished calls hold are complete results
CacheHoldsResults ==
  /\ \A id \in CodeIds :
       codesCache[id] # Null =>
         /\ codesCache[id].id = id
         /\ Truthy(codesCache[id].creator)
         /\ codesCache[id].data = CodeData(id)
         /\ \E i \in 1..Len(ChainCodes) :
              /\ ChainCodes[i].codeId.value = id
              /\ codesCache[id].creator = ChainCodes[i].creator
              /\ codesCache[id].checksum = toHex(ChainCodes[i].dataHash)
  /\ \A c \in Callers :
       FetchingDetails(c) =>
         /\ calls[c].cached # Null =>
              /\ calls[c].asked.getCode = 0
              /\ calls[c].pc = "done"
              /\ calls[c].result = [status |-> "ok", value |-> calls[c].cached]
         /\ (calls[c].pc = "done" /\ calls[c].result.status = "ok") =>
              calls[c].result.value = codesCache[calls[c].args.codeId]

\* one step: a call that starts with the id cached ends at once with the cached
\* details and no query; a call that fails leaves the cache as it was; an entry
\* of the cache is never replaced or removed
CacheStep ==
  /\ \A c \in Callers :
       /\ (calls[c].pc = "idle" /\ FetchingDetails(c)'
             /\ codesCache[calls'[c].args.codeId] # Null) =>
            /\ calls'[c].pc = "done"
            /\ calls'[c].asked.getCode = 0
            /\ calls'[c].result =
                 [status |-> "ok", value |-> codesCache[calls'[c].args.codeId]]
       /\ (calls[c].pc = "getCode" /\ calls'[c].pc = "done"
             /\ calls'[c].result.status = "err") =>
            codesCache' = codesCache
  /\ \A id \in CodeIds : codesCache[id] # Null => codesCache'[id] = codesCache[id]

\* C25: the code-details cache holds only results of successful fetches: once
\* getCodeDetails(id) has succeeded, every later call for that id returns the
\* same details without querying the node, and a call that fails (query error
\* or incomplete code info) leaves the cache unchanged, under any interleaving.
C25_CacheHoldsSuccesses == [][CacheStep /\ CacheHoldsResults']_vars

\* one call has fetched and stored the details of code 1, a later call for
\* code 1 was answered from the cache, and the cache survived failures
C25_Witness ==
  /\ FetchingDetails("c1") /\ calls["c1"].args.codeId = 1
  /\ calls["c1"].asked.getCode = 1 /\ calls["c1"].result.status = "ok"
  /\ FetchingDetails("c2") /\ calls["c2"].args.codeId = 1
  /\ calls["c2"].asked.getCode = 0 /\ calls["c2"].cached # Null
  /\ calls["c2"].result = calls["c1"].result
  /\ codesCache[1] = calls["c1"].result.value

\* the height is within the bounds of the filter as the caller gave it
WithinFilter(height, filter) ==
  /\ filter.minHeight.given => height >= filter.minHeight.value
  /\ filter.maxHeight.given => height <= filter.maxHeight.value

\* the filter as given has its upper bound below its lower bound
EmptyRange(filter) ==
  /\ filter.maxHeight.given
  /\ filter.maxHeight.value
       < (IF filter.minHeight.given THEN filter.minHeight.value ELSE 0)

\* C24: every transaction searchTx returns has a height within the filter's
\* bounds, minHeight <= height <= maxHeight, for every filter the caller
\* gives, maxHeight = 0 included; when maxHeight < minHeight the result is
\* empty and no query is sent to the node.
C24_SearchWithinFilter ==
  \A c \in Callers :
    calls[c].op = "searchTx" =>
      /\ EmptyRange(calls[c].args.filter) =>
           /\ calls[c].asked.txSearch = 0
           /\ calls[c].pc = "done"
           /\ calls[c].result = [status |-> "ok", value |-> << >>]
      /\ (calls[c].pc = "done" /\ calls[c].result.status = "ok") =>
           \A i \in 1..Len(calls[c].result.value) :
             WithinFilter(calls[c].result.value[i].height, calls[c].args.filter)

====
